---- MODULE Spec2Model ----
(***************************************************************************)
(* Room detection from wall line segments (backend/src/room_detector.py,   *)
(* backend/src/parser.py).                                                 *)
(*                                                                         *)
(* Coordinates are the integers of the working space [0,1000]; a point is  *)
(* <<x, y>>, a wall segment a record [start, end, is_load_bearing], a line *)
(* (shapely LineString of two points) a pair <<p, q>>, a face a sequence   *)
(* of points without the closing repeat.  Areas are carried doubled        *)
(* (shoelace sums), lengths in tenths, confidences in hundredths.           *)
(***************************************************************************)
EXTENDS Integers, Sequences, FiniteSets, TLC

(***************************************************************************)
(* Integer helpers                                                         *)
(***************************************************************************)
Abs(n) == IF n < 0 THEN -n ELSE n

Min2(a, b) == IF a <= b THEN a ELSE b

Max2(a, b) == IF a >= b THEN a ELSE b

SetMin(S) == CHOOSE m \in S : \A n \in S : m <= n

SetMax(S) == CHOOSE m \in S : \A n \in S : m >= n

Range(s) == {s[i] : i \in 1..Len(s)}

RECURSIVE ISqrtFrom(_, _, _)
ISqrtFrom(n, lo, hi) ==
    IF lo >= hi THEN lo
    ELSE LET mid == (lo + hi + 1) \div 2
         IN  IF mid * mid <= n THEN ISqrtFrom(n, mid, hi)
             ELSE ISqrtFrom(n, lo, mid - 1)

\* floor(sqrt(n)) for 0 <= n < 2^31
ISqrt(n) == ISqrtFrom(n, 0, Min2(n, 46340))

(***************************************************************************)
(* Plane geometry on integer points                                        *)
(***************************************************************************)
Cross(o, a, b) == (a[1] - o[1]) * (b[2] - o[2]) - (a[2] - o[2]) * (b[1] - o[1])

Dot(o, a, b) == (a[1] - o[1]) * (b[1] - o[1]) + (a[2] - o[2]) * (b[2] - o[2])

Dist2(a, b) == Dot(a, b, b)

\* p lies on the closed segment a-b
OnSegment(p, a, b) ==
    /\ Cross(a, b, p) = 0
    /\ Min2(a[1], b[1]) <= p[1] /\ p[1] <= Max2(a[1], b[1])
    /\ Min2(a[2], b[2]) <= p[2] /\ p[2] <= Max2(a[2], b[2])

Sign(n) == IF n > 0 THEN 1 ELSE IF n < 0 THEN -1 ELSE 0

\* the closed segments a-b and c-d have a point in common
SegIntersects(a, b, c, d) ==
    LET d1 == Sign(Cross(c, d, a))
        d2 == Sign(Cross(c, d, b))
        d3 == Sign(Cross(a, b, c))
        d4 == Sign(Cross(a, b, d))
    IN  \/ (d1 * d2 < 0 /\ d3 * d4 < 0)
        \/ OnSegment(a, c, d)
        \/ OnSegment(b, c, d)
        \/ OnSegment(c, a, b)
        \/ OnSegment(d, a, b)

(***************************************************************************)
(* shapely LineString predicates used by split_lines_at_intersections      *)
(***************************************************************************)
\* line1.intersects(line2)
LineIntersects(l1, l2) == SegIntersects(l1[1], l1[2], l2[1], l2[2])

\* the lines lie on one common straight line (or one of them is a point)
Collinear(l1, l2) ==
    /\ Cross(l1[1], l1[2], l2[1]) = 0
    /\ Cross(l1[1], l1[2], l2[2]) = 0
    /\ Cross(l2[1], l2[2], l1[1]) = 0
    /\ Cross(l2[1], l2[2], l1[2]) = 0

\* PointIntersection reporting only crossings in the interior of both lines
PointIntersection_crossings_only(l1, l2) ==
    LET a == l1[1]
        b == l1[2]
        c == l2[1]
        d == l2[2]
        ends == {p \in {a, b} : OnSegment(p, c, d)} \cup
                {p \in {c, d} : OnSegment(p, a, b)}
        den == (b[1] - a[1]) * (d[2] - c[2]) - (b[2] - a[2]) * (d[1] - c[1])
        tn == (c[1] - a[1]) * (d[2] - c[2]) - (c[2] - a[2]) * (d[1] - c[1])
    IN  IF ~LineIntersects(l1, l2) \/ Collinear(l1, l2) \/ ends # {} THEN {}
        ELSE {<<a[1] + (tn * (b[1] - a[1])) \div den,
                a[2] + (tn * (b[2] - a[2])) \div den>>}

\* The point of line1.intersection(line2) when that geometry is a Point,
\* the empty set when it is empty or a LineString (collinear overlap of
\* positive length): a LineString is no Point and has no attribute geoms.
\* A crossing in the interior of both lines is computed by the parametric
\* formula; an endpoint lying on the other line is returned as it is.
PointIntersection(l1, l2) ==
    LET a == l1[1]
        b == l1[2]
        c == l2[1]
        d == l2[2]
        ends == {p \in {a, b} : OnSegment(p, c, d)} \cup
                {p \in {c, d} : OnSegment(p, a, b)}
        den == (b[1] - a[1]) * (d[2] - c[2]) - (b[2] - a[2]) * (d[1] - c[1])
        tn == (c[1] - a[1]) * (d[2] - c[2]) - (c[2] - a[2]) * (d[1] - c[1])
    IN  IF ~LineIntersects(l1, l2) THEN {}
        ELSE IF Collinear(l1, l2)
             THEN (IF Cardinality(ends) = 1 THEN ends ELSE {})
        ELSE IF ends # {} THEN ends
        ELSE {<<a[1] + (tn * (b[1] - a[1])) \div den,
                a[2] + (tn * (b[2] - a[2])) \div den>>}

\* line.distance(Point(pt)) < 0.1 for integer coordinates: the foot of the
\* perpendicular when it falls inside the line, else the nearer end point.
DistanceBelowTenth(line, pt) ==
    LET a == line[1]
        b == line[2]
        len2 == Dist2(a, b)
        t == Dot(a, b, pt)
        cr == Abs(Cross(a, b, pt))
    IN  IF len2 = 0 THEN pt = a
        ELSE IF t <= 0 THEN pt = a
        ELSE IF t >= len2 THEN pt = b
        ELSE cr = 0 \/ (cr <= 141 /\ 100 * cr * cr < len2)

\* LineString.length > 0.1, that is 100 * length^2 > 1
LengthAboveTenth(a, b) == 100 * Min2(Dist2(a, b), 1) > 1

\* list.sort(key=dist_from_start): ascending distance from start
RECURSIVE SortByDist(_, _)
SortByDist(S, start) ==
    IF S = {} THEN <<>>
    ELSE LET m == CHOOSE p \in S :
                    \A q \in S : \/ Dist2(start, p) < Dist2(start, q)
                                 \/ /\ Dist2(start, p) = Dist2(start, q)
                                    /\ \/ p[1] < q[1]
                                       \/ (p[1] = q[1] /\ p[2] <= q[2])
         IN  <<m>> \o SortByDist(S \ {m}, start)

\* the pieces of one line between consecutive intersection points (lines
\* 217-230): a piece is emitted when its two ends differ and it is longer
\* than 0.1; current_start advances either way.
RECURSIVE Pieces(_, _, _, _)
Pieces(current_start, cuts, i, end) ==
    IF i > Len(cuts)
    THEN (IF current_start # end /\ LengthAboveTenth(current_start, end)
          THEN <<<<current_start, end>>>> ELSE <<>>)
    ELSE (IF current_start # cuts[i] /\ LengthAboveTenth(current_start, cuts[i])
          THEN <<<<current_start, cuts[i]>>>> ELSE <<>>)
         \o Pieces(cuts[i], cuts, i + 1, end)

\* IntersectionPoints comparing each line with the next one only
IntersectionPoints_adjacent_only(lines) ==
    UNION {PointIntersection(lines[i], lines[i + 1]) :
             i \in 1..(Len(lines) - 1)}

\* intersection_points (lines 176-187)
IntersectionPoints(lines) ==
    UNION {PointIntersection(lines[pr[1]], lines[pr[2]]) :
             pr \in {q \in (1..Len(lines)) \X (1..Len(lines)) : q[1] < q[2]}}

RECURSIVE SplitFrom(_, _, _)
SplitFrom(lines, pts, i) ==
    IF i > Len(lines) THEN <<>>
    ELSE LET line == lines[i]
             on == {p \in pts : DistanceBelowTenth(line, p)}
         IN  (IF on = {} THEN <<line>>
              ELSE Pieces(line[1], SortByDist(on, line[1]), 1, line[2]))
             \o SplitFrom(lines, pts, i + 1)

split_lines_at_intersections(lines) ==
    IF Len(lines) = 0 THEN <<>>
    ELSE LET pts == IntersectionPoints(lines)
         IN  IF pts = {} THEN lines ELSE SplitFrom(lines, pts, 1)

(***************************************************************************)
(* shapely.ops.polygonize: the polygons of the planar graph whose edges    *)
(* are the given (noded) lines.  Dangles and cut edges are deleted, the    *)
(* directed edges are linked around every node by angle, the edge rings    *)
(* are traced, and every ring that runs counter-clockwise around a bounded *)
(* face is the shell of one polygon.  Polygons are listed by their least   *)
(* directed edge, each exterior ring starting there.                       *)
(***************************************************************************)
PtLess(p, q) == p[1] < q[1] \/ (p[1] = q[1] /\ p[2] < q[2])

EdgeLess(d, e) == PtLess(d[1], e[1]) \/ (d[1] = e[1] /\ PtLess(d[2], e[2]))

\* both directions of every line of positive length
DirectedEdges(lines) ==
    UNION {IF lines[i][1] = lines[i][2] THEN {}
           ELSE {<<lines[i][1], lines[i][2]>>, <<lines[i][2], lines[i][1]>>} :
           i \in 1..Len(lines)}

Degree(DE, v) == Cardinality({d \in DE : d[1] = v})

RECURSIVE DeleteDangles(_)
DeleteDangles(DE) ==
    LET dangling == {d \in DE : Degree(DE, d[1]) = 1 \/ Degree(DE, d[2]) = 1}
    IN  IF dangling = {} THEN DE ELSE DeleteDangles(DE \ dangling)

\* position of direction v->a in the clockwise sweep that starts at v->r
SweepClass(v, r, a) ==
    LET c == Cross(v, r, a)
    IN  IF c < 0 THEN 1
        ELSE IF c > 0 THEN 3
        ELSE IF Dot(v, r, a) < 0 THEN 2 ELSE 4

SweepBefore(v, r, a, b) ==
    \/ SweepClass(v, r, a) < SweepClass(v, r, b)
    \/ /\ SweepClass(v, r, a) = SweepClass(v, r, b)
       /\ Cross(v, a, b) < 0

\* NextEdge taking the last edge of the sweep that does not turn back,
\* instead of the first edge of the sweep
NextEdge_last_of_sweep(DE, d) ==
    LET v == d[2]
        out == {e \in DE : e[1] = v}
        ahead == {e \in out : e[2] # d[1]}
        turns == IF ahead = {} THEN out ELSE ahead
    IN  CHOOSE e \in turns :
            \A f \in turns \ {e} : SweepBefore(v, d[1], f[2], e[2])

\* the directed edge that follows d on the ring keeping its face on the left
NextEdge(DE, d) ==
    LET v == d[2]
        out == {e \in DE : e[1] = v}
    IN  CHOOSE e \in out :
            \A f \in out \ {e} : SweepBefore(v, d[1], e[2], f[2])

\* the linking of the directed edges into rings
Links(DE) == [d \in DE |-> NextEdge(DE, d)]

RECURSIVE TraceRing(_, _, _, _)
TraceRing(next, first, d, acc) ==
    IF next[d] = first THEN acc
    ELSE TraceRing(next, first, next[d], Append(acc, next[d]))

\* the rings of the linking next, each as traced from every edge on it
EdgeRings(next) == {TraceRing(next, d, d, <<d>>) : d \in DOMAIN next}

\* edges whose two directions lie on one and the same ring
CutEdges(rings) ==
    {r[1] : r \in {q \in rings : <<q[1][2], q[1][1]>> \in Range(q)}}

\* doubled signed area of the closed ring through the points of face
RECURSIVE ShoelaceFrom(_, _)
ShoelaceFrom(face, i) ==
    IF i > Len(face) THEN 0
    ELSE LET p == face[i]
             q == face[(i % Len(face)) + 1]
         IN  (p[1] * q[2] - q[1] * p[2]) + ShoelaceFrom(face, i + 1)

SignedArea2(face) == ShoelaceFrom(face, 1)

RingPoints(ring) == [i \in 1..Len(ring) |-> ring[i][1]]

RECURSIVE SortFaces(_)
SortFaces(S) ==
    IF S = {} THEN <<>>
    ELSE LET m == CHOOSE f \in S :
                    \A g \in S \ {f} : EdgeLess(<<f[1], f[2]>>, <<g[1], g[2]>>)
         IN  <<m>> \o SortFaces(S \ {m})

polygonize(lines) ==
    LET DE0 == DeleteDangles(DirectedEdges(lines))
        rings0 == EdgeRings(Links(DE0))
        cut == CutEdges(rings0)
        rings == IF cut = {} THEN rings0 ELSE EdgeRings(Links(DE0 \ cut))
        least == {r \in rings : \A i \in 2..Len(r) : EdgeLess(r[1], r[i])}
        shells == {RingPoints(r) : r \in least}
    IN  SortFaces({f \in shells : SignedArea2(f) > 0})

(***************************************************************************)
(* find_faces_using_polygonize                                             *)
(***************************************************************************)
SegmentLines(segments) ==
    [i \in 1..Len(segments) |-> <<segments[i].start, segments[i].end>>]

\* edge i of the closed ring through the points of face
FaceEdge(face, i) == <<face[i], face[(i % Len(face)) + 1]>>

\* two ring edges that follow one another (b the shared point) overlap
Backtracks(a, b, c) ==
    a = b \/ b = c \/ (Cross(a, b, c) = 0 /\ Dot(b, a, c) > 0)

\* Polygon(face).is_valid: the ring is simple
IsValidPolygon(face) ==
    LET n == Len(face)
    IN  /\ n >= 3
        /\ \A i \in 1..n :
             ~Backtracks(face[i], FaceEdge(face, i)[2],
                         FaceEdge(face, (i % n) + 1)[2])
        /\ \A i \in 1..n : \A j \in (i + 1)..n :
             (j # i + 1 /\ ~(i = 1 /\ j = n)) =>
                 ~LineIntersects(FaceEdge(face, i), FaceEdge(face, j))

\* 2 * Polygon(face).area
Area2(face) == Abs(SignedArea2(face))

\* 10 * Polygon(face).length, every edge length cut to one decimal
RECURSIVE Perimeter10From(_, _)
Perimeter10From(face, i) ==
    IF i > Len(face) THEN 0
    ELSE ISqrt(100 * Dist2(face[i], FaceEdge(face, i)[2]))
         + Perimeter10From(face, i + 1)

Perimeter10(face) == Perimeter10From(face, 1)

\* lines 267-276: valid polygons of positive area, exterior ring without
\* the closing point, at least 3 points
IsPolygonFace(poly) ==
    IsValidPolygon(poly) /\ Area2(poly) > 0 /\ Len(poly) >= 3

PolygonFaces(polygons) == SelectSeq(polygons, IsPolygonFace)

find_faces_using_polygonize(segments) ==
    LET lines == SegmentLines(segments)
        split_lines == split_lines_at_intersections(lines)
        polygons == polygonize(split_lines)
    IN  PolygonFaces(polygons)

(***************************************************************************)
(* filter_cycles                                                           *)
(***************************************************************************)
\* defaults of filter_cycles as detect_rooms uses them
MinArea == 100

MinPerimeter == 40

MaxArea == 900000

\* KeepsCycle discarding a cycle whose area is exactly min_area
KeepsCycle_above_min_area(cycle, min_area, min_perimeter, max_area) ==
    /\ Len(cycle) >= 3
    /\ IsValidPolygon(cycle)
    /\ Area2(cycle) > 2 * min_area
    /\ Area2(cycle) <= 2 * max_area
    /\ Perimeter10(cycle) >= 10 * min_perimeter

\* KeepsCycle discarding a cycle whose perimeter is exactly min_perimeter
KeepsCycle_above_min_perimeter(cycle, min_area, min_perimeter, max_area) ==
    /\ Len(cycle) >= 3
    /\ IsValidPolygon(cycle)
    /\ Area2(cycle) >= 2 * min_area
    /\ Area2(cycle) <= 2 * max_area
    /\ Perimeter10(cycle) > 10 * min_perimeter

\* KeepsCycle without the max_area test
KeepsCycle_without_max_area(cycle, min_area, min_perimeter, max_area) ==
    /\ Len(cycle) >= 3
    /\ IsValidPolygon(cycle)
    /\ Area2(cycle) >= 2 * min_area
    /\ Perimeter10(cycle) >= 10 * min_perimeter

\* the test one cycle has to pass (lines 481-498)
KeepsCycle(cycle, min_area, min_perimeter, max_area) ==
    /\ Len(cycle) >= 3
    /\ IsValidPolygon(cycle)
    /\ Area2(cycle) >= 2 * min_area
    /\ Area2(cycle) <= 2 * max_area
    /\ Perimeter10(cycle) >= 10 * min_perimeter

filter_cycles(cycles, min_area, min_perimeter, max_area) ==
    SelectSeq(cycles,
              LAMBDA c : KeepsCycle(c, min_area, min_perimeter, max_area))

(***************************************************************************)
(* polygon_to_bounding_box, normalize_bounding_box                         *)
(***************************************************************************)
\* polygon_to_bounding_box over the first two vertices only
polygon_to_bounding_box_first_edge(cycle) ==
    IF Len(cycle) = 0 THEN <<0, 0, 0, 0>>
    ELSE LET x_coords == {cycle[i][1] : i \in 1..Min2(2, Len(cycle))}
             y_coords == {cycle[i][2] : i \in 1..Min2(2, Len(cycle))}
         IN  <<SetMin(x_coords), SetMin(y_coords),
               SetMax(x_coords), SetMax(y_coords)>>

\* polygon_to_bounding_box returning (min_x, max_x, min_y, max_y)
polygon_to_bounding_box_by_axis(cycle) ==
    IF Len(cycle) = 0 THEN <<0, 0, 0, 0>>
    ELSE LET x_coords == {cycle[i][1] : i \in 1..Len(cycle)}
             y_coords == {cycle[i][2] : i \in 1..Len(cycle)}
         IN  <<SetMin(x_coords), SetMax(x_coords),
               SetMin(y_coords), SetMax(y_coords)>>

polygon_to_bounding_box(cycle) ==
    IF Len(cycle) = 0 THEN <<0, 0, 0, 0>>
    ELSE LET x_coords == {cycle[i][1] : i \in 1..Len(cycle)}
             y_coords == {cycle[i][2] : i \in 1..Len(cycle)}
         IN  <<SetMin(x_coords), SetMin(y_coords),
               SetMax(x_coords), SetMax(y_coords)>>

\* target_range of normalize_bounding_box
RangeMin == 0

RangeMax == 1000

\* NormalizedExact taking only a box strictly inside the range as fitting
NormalizedExact_strictly_inside(bbox) ==
    LET width == bbox[3] - bbox[1]
        height == bbox[4] - bbox[2]
        span == RangeMax - RangeMin
        m == Max2(width, height)
        new_min_x == Max2(RangeMin * 2 * m, (bbox[1] + bbox[3]) * m - width * span)
        new_min_y == Max2(RangeMin * 2 * m, (bbox[2] + bbox[4]) * m - height * span)
        new_max_x == Min2(RangeMax * 2 * m, new_min_x + 2 * width * span)
        new_max_y == Min2(RangeMax * 2 * m, new_min_y + 2 * height * span)
    IN  IF /\ bbox[1] > RangeMin /\ bbox[3] < RangeMax
           /\ bbox[2] > RangeMin /\ bbox[4] < RangeMax
        THEN [unit |-> 1, box |-> bbox]
        ELSE IF width = 0 \/ height = 0 THEN [unit |-> 1, box |-> bbox]
        ELSE [unit |-> 2 * m,
              box |-> <<new_min_x, new_min_y, new_max_x, new_max_y>>]

\* The box normalize_bounding_box returns, exactly: coordinate k is
\* box[k] / unit.  Outside the target range the box is scaled by
\* min(span / width, span / height) = span / m, m the larger of width and
\* height, about its centre and clamped (lines 552-570); in units of
\* 1 / (2 * m) every value of that computation is a whole number.
NormalizedExact(bbox) ==
    LET min_x == bbox[1]
        min_y == bbox[2]
        max_x == bbox[3]
        max_y == bbox[4]
        width == max_x - min_x
        height == max_y - min_y
        span == RangeMax - RangeMin
        m == Max2(width, height)
        new_min_x == Max2(RangeMin * 2 * m, (min_x + max_x) * m - width * span)
        new_min_y == Max2(RangeMin * 2 * m, (min_y + max_y) * m - height * span)
        new_max_x == Min2(RangeMax * 2 * m, new_min_x + 2 * width * span)
        new_max_y == Min2(RangeMax * 2 * m, new_min_y + 2 * height * span)
    IN  IF /\ min_x >= RangeMin /\ max_x <= RangeMax
           /\ min_y >= RangeMin /\ max_y <= RangeMax
        THEN [unit |-> 1, box |-> bbox]
        ELSE IF width = 0 \/ height = 0 THEN [unit |-> 1, box |-> bbox]
        ELSE [unit |-> 2 * m,
              box |-> <<new_min_x, new_min_y, new_max_x, new_max_y>>]

\* the returned box cut to whole coordinates
normalize_bounding_box(bbox) ==
    LET r == NormalizedExact(bbox)
    IN  <<r.box[1] \div r.unit, r.box[2] \div r.unit,
          r.box[3] \div r.unit, r.box[4] \div r.unit>>

(***************************************************************************)
(* calculate_confidence_score, in hundredths                               *)
(***************************************************************************)
\* 1000 * perimeter^2 / area, cut to a whole number and capped at 10^7:
\* compactness 4 * 3.14159 * area / perimeter^2 exceeds t exactly when this
\* is below 1000 * 4 * 3.14159 / t
InverseCompactness1000(face) ==
    LET p2 == Perimeter10(face) * Perimeter10(face)
        a2 == Area2(face)
        q == p2 \div a2
    IN  IF q >= 10000 THEN 10000000
        ELSE q * 1000 + ((p2 % a2) * 1000) \div a2

Clamp(lo, hi, v) == Max2(lo, Min2(hi, v))

\* Polygon(face) raises for one or two points; no point gives the empty
\* polygon, which is valid
PolygonRaises(face) == Len(face) \in {1, 2}

PolygonIsValid(face) == Len(face) = 0 \/ IsValidPolygon(face)

\* ConfidenceSum with the penalty of a small room for a large one
ConfidenceSum_one_penalty(face, used_polygonize) ==
    LET area2 == Area2(face)
        ic == InverseCompactness1000(face)
        vertex_count == Len(face)
    IN  50 + (IF used_polygonize THEN 20 ELSE 0)
        + (IF area2 > 0 /\ Perimeter10(face) > 0
           THEN (IF ic < 1256636 THEN 15
                 ELSE IF ic < 2094394 THEN 10
                 ELSE IF ic < 6283180 THEN 5 ELSE 0)
           ELSE 0)
        + (IF 1000 <= area2 /\ area2 <= 1000000 THEN 10 ELSE -10)
        + (IF 3 <= vertex_count /\ vertex_count <= 8 THEN 5
           ELSE IF vertex_count > 20 THEN -5 ELSE 0)

\* the sum of lines 600-634 for a valid polygon
ConfidenceSum(face, used_polygonize) ==
    LET area2 == Area2(face)
        ic == InverseCompactness1000(face)
        vertex_count == Len(face)
    IN  50 + (IF used_polygonize THEN 20 ELSE 0)
        + (IF area2 > 0 /\ Perimeter10(face) > 0
           THEN (IF ic < 1256636 THEN 15
                 ELSE IF ic < 2094394 THEN 10
                 ELSE IF ic < 6283180 THEN 5 ELSE 0)
           ELSE 0)
        + (IF 1000 <= area2 /\ area2 <= 1000000 THEN 10
           ELSE IF area2 < 1000 THEN -10
           ELSE -5)
        + (IF 3 <= vertex_count /\ vertex_count <= 8 THEN 5
           ELSE IF vertex_count > 20 THEN -5 ELSE 0)

\* calculate_confidence_score returning its sum unclamped, and 2.0 for 0.2
\* where Polygon raises
calculate_confidence_score_unclamped(face, total_faces, used_polygonize) ==
    IF PolygonRaises(face) THEN 200
    ELSE IF ~PolygonIsValid(face) THEN 30
    ELSE ConfidenceSum(face, used_polygonize)

calculate_confidence_score(face, total_faces, used_polygonize) ==
    IF PolygonRaises(face) THEN 20
    ELSE IF ~PolygonIsValid(face) THEN 30
    ELSE Clamp(0, 100, ConfidenceSum(face, used_polygonize))


(***************************************************************************)
(* snap_endpoints, build_wall_graph                                        *)
(***************************************************************************)
\* all_endpoints (lines 20-23)
AllEndpoints(segments) ==
    {segments[i].start : i \in 1..Len(segments)} \cup
    {segments[i].end : i \in 1..Len(segments)}

\* the orders in which "for point in all_endpoints" may visit the set S
RECURSIVE IterationOrders(_)
IterationOrders(S) ==
    IF S = {} THEN {<<>>}
    ELSE UNION {{<<p>> \o o : o \in IterationOrders(S \ {p})} : p \in S}

\* distance < tolerance
WithinTolerance_strictly(p, q, tolerance) ==
    Dist2(p, q) < tolerance * tolerance

\* distance <= tolerance
WithinTolerance(p, q, tolerance) == Dist2(p, q) <= tolerance * tolerance

\* lines 29-42 from position i on, with the canonical points found so far
RECURSIVE SnapFrom(_, _, _, _, _)
SnapFrom(order, i, canonical_points, endpoint_groups, tolerance) ==
    IF i > Len(order) THEN endpoint_groups
    ELSE LET point == order[i]
             near == {k \in 1..Len(canonical_points) :
                        WithinTolerance(point, canonical_points[k], tolerance)}
         IN  IF near # {}
             THEN SnapFrom(order, i + 1, canonical_points,
                           endpoint_groups @@
                             (point :> canonical_points[SetMin(near)]),
                           tolerance)
             ELSE SnapFrom(order, i + 1, Append(canonical_points, point),
                           endpoint_groups @@ (point :> point), tolerance)

\* the map of snap_endpoints when the endpoint set is visited in order
snap_endpoints(segments, tolerance, order) ==
    SnapFrom(order, 1, <<>>, <<>>, tolerance)

\* an nx.Graph: a node set, an edge set of unordered node pairs (a loop is
\* a one-element set), and the segment attribute of every edge; a second
\* add_edge on the same pair replaces the attribute
EdgeKey(u, v) == {u, v}

\* AddEdgesFrom joining the end points of the segment as they were given
RECURSIVE AddEdgesFrom_unsnapped_edges(_, _, _, _)
AddEdgesFrom_unsnapped_edges(segments, i, endpoint_map, G) ==
    IF i > Len(segments) THEN G
    ELSE LET start_snapped == endpoint_map[segments[i].start]
             end_snapped == endpoint_map[segments[i].end]
             key == EdgeKey(segments[i].start, segments[i].end)
         IN  AddEdgesFrom_unsnapped_edges(segments, i + 1, endpoint_map,
                [nodes |-> G.nodes \cup {start_snapped, end_snapped},
                 edges |-> G.edges \cup {key},
                 segment |-> [e \in G.edges \cup {key} |->
                                IF e = key THEN segments[i] ELSE G.segment[e]]])

RECURSIVE AddEdgesFrom(_, _, _, _)
AddEdgesFrom(segments, i, endpoint_map, G) ==
    IF i > Len(segments) THEN G
    ELSE LET start_snapped == endpoint_map[segments[i].start]
             end_snapped == endpoint_map[segments[i].end]
             key == EdgeKey(start_snapped, end_snapped)
         IN  AddEdgesFrom(segments, i + 1, endpoint_map,
                [nodes |-> G.nodes \cup {start_snapped, end_snapped},
                 edges |-> G.edges \cup {key},
                 segment |-> [e \in G.edges \cup {key} |->
                                IF e = key THEN segments[i] ELSE G.segment[e]]])

EmptyGraph == [nodes |-> {}, edges |-> {}, segment |-> <<>>]

build_wall_graph(segments, tolerance, order) ==
    AddEdgesFrom(segments, 1, snap_endpoints(segments, tolerance, order),
                 EmptyGraph)

(***************************************************************************)
(* find_faces_in_planar_graph (Strategy B), detect_cycles                  *)
(***************************************************************************)
Neighbors(G, v) == {w \in G.nodes : w # v /\ EdgeKey(v, w) \in G.edges}

\* the simple cycles that start with path, every later node above path[1]
RECURSIVE CyclesFrom(_, _)
CyclesFrom(G, path) ==
    LET s == path[1]
        last == path[Len(path)]
        closed == IF Len(path) >= 3 /\ EdgeKey(last, s) \in G.edges
                  THEN {path} ELSE {}
        ext == {w \in Neighbors(G, last) :
                  PtLess(s, w) /\ w \notin Range(path)}
    IN  closed \cup UNION {CyclesFrom(G, Append(path, w)) : w \in ext}

\* nx.simple_cycles(graph.to_directed()) without the cycles of fewer than
\* 3 nodes: every loop of the graph, once in each direction
SimpleCycles(G) == UNION {CyclesFrom(G, <<s>>) : s \in G.nodes}

RECURSIVE SeqLessFrom(_, _, _)
SeqLessFrom(a, b, i) ==
    IF i > Len(a) THEN i <= Len(b)
    ELSE IF i > Len(b) THEN FALSE
    ELSE IF a[i] = b[i] THEN SeqLessFrom(a, b, i + 1)
    ELSE PtLess(a[i], b[i])

SeqLess(a, b) == SeqLessFrom(a, b, 1)

RECURSIVE SortCycles(_)
SortCycles(S) ==
    IF S = {} THEN <<>>
    ELSE LET m == CHOOSE c \in S : \A d \in S \ {c} : SeqLess(c, d)
         IN  <<m>> \o SortCycles(S \ {m})

\* all_cycles after Strategy 1 and Strategy 2 (lines 305-359): one cycle
\* per node set, the first one discovered.  The cycles that Strategy 2
\* builds over a removed edge are simple cycles of at least 3 nodes, whose
\* node sets Strategy 1 has seen already, so they add nothing.  Discovery
\* follows the order of the cycles as node sequences.
AllCycles(G) ==
    LET found == SimpleCycles(G)
        first == {c \in found :
                    \A d \in found : Range(d) = Range(c) =>
                        (d = c \/ SeqLess(c, d))}
    IN  SortCycles(first)

\* pt (doubled coordinates) lies in the closed polygon of face
InClosedPolygon(pt, face) ==
    LET n == Len(face)
        dbl(q) == <<2 * q[1], 2 * q[2]>>
        a(i) == dbl(face[i])
        b(i) == dbl(FaceEdge(face, i)[2])
        up == {i \in 1..n : a(i)[2] <= pt[2] /\ pt[2] < b(i)[2]
                             /\ Cross(a(i), b(i), pt) > 0}
        down == {i \in 1..n : b(i)[2] <= pt[2] /\ pt[2] < a(i)[2]
                               /\ Cross(a(i), b(i), pt) < 0}
    IN  \/ \E i \in 1..n : OnSegment(pt, a(i), b(i))
        \/ (Cardinality(up) + Cardinality(down)) % 2 = 1

\* the polygon of line 369-373: the cycle's own polygon when valid, else
\* its buffer(0), taken as the empty polygon
Repaired(cycle) == IF IsValidPolygon(cycle) THEN cycle ELSE <<>>

\* poly.contains(other_poly) for cycles over edges that do not cross:
\* every point and every edge midpoint of other lies in closed poly
PolyContains(poly, other) ==
    /\ Len(poly) > 0
    /\ Len(other) > 0
    /\ \A i \in 1..Len(other) :
         /\ InClosedPolygon(<<2 * other[i][1], 2 * other[i][2]>>, poly)
         /\ InClosedPolygon(<<other[i][1] + FaceEdge(other, i)[2][1],
                              other[i][2] + FaceEdge(other, i)[2][2]>>, poly)

\* IsMinimal without the factor 0.8
IsMinimal_any_smaller(cycle, all_cycles) ==
    ~\E k \in 1..Len(all_cycles) :
        /\ all_cycles[k] # cycle
        /\ Area2(Repaired(all_cycles[k])) < Area2(Repaired(cycle))
        /\ PolyContains(Repaired(cycle), Repaired(all_cycles[k]))

\* IsMinimal looking at every candidate that lies in the cycle, the cycle
\* itself among them
IsMinimal_counting_itself(cycle, all_cycles) ==
    ~\E k \in 1..Len(all_cycles) :
        PolyContains(Repaired(cycle), Repaired(all_cycles[k]))

\* lines 378-397
IsMinimal(cycle, all_cycles) ==
    ~\E k \in 1..Len(all_cycles) :
        /\ all_cycles[k] # cycle
        /\ 10 * Area2(Repaired(all_cycles[k])) < 8 * Area2(Repaired(cycle))
        /\ PolyContains(Repaired(cycle), Repaired(all_cycles[k]))

find_faces_in_planar_graph(G) ==
    IF Cardinality(G.nodes) < 3 THEN <<>>
    ELSE LET all_cycles == AllCycles(G)
         IN  SelectSeq(all_cycles, LAMBDA c : IsMinimal(c, all_cycles))

\* nx.cycle_basis(graph) kept to the cycles of at least 3 nodes: one loop
\* per independent cycle, found by taking a loop and opening it
RECURSIVE CycleBasis3(_)
CycleBasis3(G) ==
    LET cs == AllCycles(G)
    IN  IF Len(cs) = 0 THEN <<>>
        ELSE <<cs[1]>> \o
             CycleBasis3([G EXCEPT !.edges = @ \ {EdgeKey(cs[1][1], cs[1][2])}])

detect_cycles(G) ==
    LET cycles == find_faces_in_planar_graph(G)
    IN  IF Len(cycles) > 0 THEN cycles ELSE CycleBasis3(G)

(***************************************************************************)
(* parse_line_segments (parser.py) on a JSON array of wall objects         *)
(***************************************************************************)
InRange(c) == 0 <= c /\ c <= 1000

WallOk(wall) ==
    /\ wall.type = "line"
    /\ InRange(wall.start[1]) /\ InRange(wall.start[2])
    /\ InRange(wall.end[1]) /\ InRange(wall.end[2])

\* ParseRaises accepting the empty array
ParseRaises_accepting_empty(data) ==
    \E i \in 1..Len(data) : ~WallOk(data[i])

\* raises ValueError: no wall, an unsupported type, a coordinate out of range
ParseRaises(data) ==
    Len(data) = 0 \/ \E i \in 1..Len(data) : ~WallOk(data[i])

parse_line_segments(data) ==
    [i \in 1..Len(data) |->
        [start |-> data[i].start, end |-> data[i].end,
         is_load_bearing |-> data[i].is_load_bearing]]

(***************************************************************************)
(* parse_line_segments on any JSON value.  A JSON value carries its kind:  *)
(* null, bool, number (finite or NaN/Infinity), string, array, object.     *)
(* ParseRaises and parse_line_segments above are this parser on arrays of  *)
(* objects whose coordinates are pairs of finite numbers.                  *)
(***************************************************************************)
JNull == [kind |-> "null"]

JBool(b) == [kind |-> "bool", value |-> b]

JNum(n) == [kind |-> "number", finite |-> TRUE, value |-> n]

\* NaN, as json.loads reads the literal NaN
JNaN == [kind |-> "number", finite |-> FALSE, value |-> 0]

JStr(str) == [kind |-> "string", value |-> str]

JArr(items) == [kind |-> "array", items |-> items]

JObj(fields) == [kind |-> "object", fields |-> fields]

\* the strings float() converts, with their values; it raises ValueError
\* for every other string of the inputs
FloatStrings == ("0" :> 0) @@ ("5" :> 5) @@ ("100" :> 100) @@ ("1001" :> 1001)

\* float(v) of lines 84-85: ok is FALSE where it raises ValueError or
\* TypeError (a string that is no number, None, a list, a dict); True and
\* False convert to 1.0 and 0.0
ToFloat(v) ==
    IF v.kind = "number" THEN [ok |-> TRUE, finite |-> v.finite, value |-> v.value]
    ELSE IF v.kind = "bool"
         THEN [ok |-> TRUE, finite |-> TRUE, value |-> IF v.value THEN 1 ELSE 0]
    ELSE IF v.kind = "string" /\ v.value \in DOMAIN FloatStrings
         THEN [ok |-> TRUE, finite |-> TRUE, value |-> FloatStrings[v.value]]
    ELSE [ok |-> FALSE, finite |-> FALSE, value |-> 0]

\* not isinstance(v, list) or len(v) != 2 (lines 78-81)
NotPair(v) == v.kind # "array" \/ Len(v.items) # 2

\* 0 <= coord <= 1000 (line 91); every comparison with NaN is false
CoordInRange(c) == c.finite /\ 0 <= c.value /\ c.value <= 1000

\* the four converted coordinates of a wall whose start and end are pairs
WallFloats(wall) ==
    <<ToFloat(wall.fields["start"].items[1]),
      ToFloat(wall.fields["start"].items[2]),
      ToFloat(wall.fields["end"].items[1]),
      ToFloat(wall.fields["end"].items[2])>>

\* wall.get('is_load_bearing', False) (line 95)
LoadBearingOf(wall) ==
    IF "is_load_bearing" \in DOMAIN wall.fields
    THEN wall.fields["is_load_bearing"]
    ELSE JBool(FALSE)

\* one pass of the loop body (lines 60-97) raises ValueError
WallRaises(wall) ==
    \/ wall.kind # "object"
    \/ "type" \notin DOMAIN wall.fields
    \/ wall.fields["type"] # JStr("line")
    \/ "start" \notin DOMAIN wall.fields
    \/ "end" \notin DOMAIN wall.fields
    \/ NotPair(wall.fields["start"])
    \/ NotPair(wall.fields["end"])
    \/ \E k \in 1..4 : ~WallFloats(wall)[k].ok
    \/ \E k \in 1..4 : ~CoordInRange(WallFloats(wall)[k])
    \/ LoadBearingOf(wall).kind # "bool"

\* WallSegment(start_coords, end_coords, is_load_bearing) (line 99)
WallSegmentOf(wall) ==
    [start |-> <<WallFloats(wall)[1].value, WallFloats(wall)[2].value>>,
     end |-> <<WallFloats(wall)[3].value, WallFloats(wall)[4].value>>,
     is_load_bearing |-> LoadBearingOf(wall).value]

\* lines 52-101 on the loaded JSON value: what is returned, or raised
parse_json_data(data) ==
    IF \/ data.kind # "array"
       \/ Len(data.items) = 0
       \/ \E i \in 1..Len(data.items) : WallRaises(data.items[i])
    THEN [raised |-> TRUE, value |-> <<>>]
    ELSE [raised |-> FALSE,
          value |-> [i \in 1..Len(data.items) |-> WallSegmentOf(data.items[i])]]

(***************************************************************************)
(* detect_rooms                                                            *)
(***************************************************************************)
Digits(n) == ToString(n)

\* RoomId numbering from the 0-based position
RoomId_zero_based(n) ==
    "room_" \o (IF n - 1 < 10 THEN "00" ELSE IF n - 1 < 100 THEN "0" ELSE "")
            \o Digits(n - 1)

\* f"room_{n:03d}"
RoomId(n) ==
    "room_" \o (IF n < 10 THEN "00" ELSE IF n < 100 THEN "0" ELSE "")
            \o Digits(n)

\* f"Room {n}"
NameHint(n) == "Room " \o Digits(n)

\* the dict appended at lines 683-688; confidence in hundredths is
\* round(confidence, 2)
MakeRoom(i, face, total_faces, used_polygonize) ==
    [id |-> RoomId(i),
     bounding_box |-> normalize_bounding_box(polygon_to_bounding_box(face)),
     name_hint |-> NameHint(i),
     confidence |-> calculate_confidence_score(face, total_faces,
                                               used_polygonize)]

\* lines 660-672: the faces of Strategy A (polygon_faces), else those of
\* Strategy B on the wall graph built with the endpoints visited in order,
\* and the filtered faces
DetectFaces(segments, tolerance, polygon_faces, order) ==
    LET used == Len(polygon_faces) > 0
        fs == IF used THEN polygon_faces
              ELSE find_faces_in_planar_graph(
                       build_wall_graph(segments, tolerance, order))
    IN  [faces |-> fs, used_polygonize |-> used,
         valid_faces |-> filter_cycles(fs, MinArea, MinPerimeter, MaxArea)]

BuildRooms(valid_faces, used_polygonize) ==
    [i \in 1..Len(valid_faces) |->
        MakeRoom(i, valid_faces[i], Len(valid_faces), used_polygonize)]

(***************************************************************************)
(* Visiting orders of the endpoint set.  A point with no other endpoint    *)
(* within tolerance becomes its own canonical point wherever it is visited *)
(* and is a candidate for no other point, so only the relative order of    *)
(* the remaining points shows in the map of snap_endpoints: they are       *)
(* visited in every order, the others after them in one fixed order.       *)
(***************************************************************************)
RECURSIVE SortPoints(_)
SortPoints(S) ==
    IF S = {} THEN <<>>
    ELSE LET m == CHOOSE p \in S : \A q \in S \ {p} : PtLess(p, q)
         IN  <<m>> \o SortPoints(S \ {m})

SnapOrders(segments, tolerance) ==
    LET S == AllEndpoints(segments)
        crowded == {p \in S : \E q \in S \ {p} : WithinTolerance(p, q, tolerance)}
        rest == SortPoints(S \ crowded)
    IN  {o \o rest : o \in IterationOrders(crowded)}

(***************************************************************************)
(* Inputs: wall arrays as the callers and the tests build them             *)
(***************************************************************************)
Wall(p, q) ==
    [type |-> "line", start |-> p, end |-> q, is_load_bearing |-> FALSE]

\* the four walls of a rectangle as a closed chain
Rect(x0, y0, x1, y1) ==
    <<Wall(<<x0, y0>>, <<x1, y0>>), Wall(<<x1, y0>>, <<x1, y1>>),
      Wall(<<x1, y1>>, <<x0, y1>>), Wall(<<x0, y1>>, <<x0, y0>>)>>

\* the closed chain through the points of pts
Chain(pts) ==
    [i \in 1..Len(pts) |-> Wall(pts[i], pts[(i % Len(pts)) + 1])]

Marks == {0, 5, 10, 900, 1000}

Spans == {iv \in Marks \X Marks : iv[1] < iv[2]}

RectInputs ==
    {Rect(x[1], y[1], x[2], y[2]) : x \in Spans, y \in Spans}

IsInterior(m, iv) == iv[1] < m /\ m < iv[2]

\* x-span, y-span and a mark strictly inside the x-span (the y-span)
SplitX == {t \in Spans \X Spans \X Marks : IsInterior(t[3], t[1])}

SplitY == {t \in Spans \X Spans \X Marks : IsInterior(t[3], t[2])}

\* a rectangle and one interior wall between two opposite perimeter walls
\* (T-junctions: the perimeter walls are not split where the wall ends)
DividedByVertical(t) ==
    Rect(t[1][1], t[2][1], t[1][2], t[2][2]) \o
    <<Wall(<<t[3], t[2][1]>>, <<t[3], t[2][2]>>)>>

DividedByHorizontal(t) ==
    Rect(t[1][1], t[2][1], t[1][2], t[2][2]) \o
    <<Wall(<<t[1][1], t[3]>>, <<t[1][2], t[3]>>)>>

DividedRectInputs ==
    {DividedByVertical(t) : t \in SplitX} \cup
    {DividedByHorizontal(t) : t \in SplitY}

\* two rectangles side by side (or one above the other) that share a
\* wall, as 7 walls: the 4 of the first, the 3 others of the second
\* (test_adjacent_rooms_shared_wall)
SideBySide(t) ==
    Rect(t[1][1], t[2][1], t[3], t[2][2]) \o
    <<Wall(<<t[3], t[2][1]>>, <<t[1][2], t[2][1]>>),
      Wall(<<t[1][2], t[2][1]>>, <<t[1][2], t[2][2]>>),
      Wall(<<t[1][2], t[2][2]>>, <<t[3], t[2][2]>>)>>

Stacked(t) ==
    Rect(t[1][1], t[2][1], t[1][2], t[3]) \o
    <<Wall(<<t[1][2], t[3]>>, <<t[1][2], t[2][2]>>),
      Wall(<<t[1][2], t[2][2]>>, <<t[1][1], t[2][2]>>),
      Wall(<<t[1][1], t[2][2]>>, <<t[1][1], t[3]>>)>>

SharedWallInputs ==
    {SideBySide(t) : t \in SplitX} \cup {Stacked(t) : t \in SplitY}

\* an R x C grid of w x h rooms: the outer perimeter, C-1 full-height and
\* R-1 full-width dividers (generate_20_connected_rooms_floorplan before
\* its rescaling)
MaxGrid == 3

CellSizes == {5, 10, 100, 250}

GridWalls(R, C, w, h) ==
    Rect(0, 0, C * w, R * h) \o
    [c \in 1..(C - 1) |-> Wall(<<c * w, 0>>, <<c * w, R * h>>)] \o
    [r \in 1..(R - 1) |-> Wall(<<0, r * h>>, <<C * w, r * h>>)]

\* the longest single row of rooms
LongRow == 10

GridShapes ==
    {g \in (1..MaxGrid) \X (1..MaxGrid) \X CellSizes \X CellSizes :
        g[2] * g[3] <= 1000 /\ g[1] * g[4] <= 1000}
    \cup {<<1, LongRow, 10, 10>>}

GridInputs == {GridWalls(g[1], g[2], g[3], g[4]) : g \in GridShapes}

\* a rectangle and one wall that touches nothing
\* (test_disconnected_components)
Strays ==
    {Wall(<<20, 20>>, <<50, 60>>), Wall(<<950, 950>>, <<990, 960>>),
     Wall(<<300, 300>>, <<400, 300>>)}

Touches(w, walls) ==
    \E i \in 1..Len(walls) :
        SegIntersects(w.start, w.end, walls[i].start, walls[i].end)

StrayInputs ==
    {rs[1] \o <<rs[2]>> :
        rs \in {q \in RectInputs \X Strays : ~Touches(q[2], q[1])}}

\* closed chains of 3..MaxSides walls around a simple polygon
MaxSides == 4

PolyPoints ==
    {<<0, 0>>, <<10, 0>>, <<1000, 0>>, <<1000, 1000>>, <<0, 1000>>, <<0, 10>>}

RECURSIVE Arrangements(_, _)
Arrangements(S, n) ==
    IF n = 0 THEN {<<>>}
    ELSE UNION {{<<p>> \o a : a \in Arrangements(S \ {p}, n - 1)} : p \in S}

PolygonInputs ==
    {Chain(pts) :
        pts \in {a \in UNION {Arrangements(PolyPoints, n) : n \in 3..MaxSides} :
                    IsValidPolygon(a)}}

\* chains whose last wall starts up to 1 beside the end of the wall before
\* it (numeric drift at one junction)
Drifts == {<<0, 1>>, <<1, 0>>, <<1, 1>>}

Drifted(pts, d) ==
    [i \in 1..Len(pts) |->
        IF i = Len(pts)
        THEN Wall(<<pts[i][1] + d[1], pts[i][2] + d[2]>>, pts[1])
        ELSE Wall(pts[i], pts[i + 1])]

DriftBases ==
    {<<<<0, 0>>, <<100, 0>>, <<50, 100>>>>,
     <<<<0, 0>>, <<100, 0>>, <<100, 100>>, <<0, 100>>>>,
     <<<<10, 10>>, <<900, 10>>, <<900, 900>>>>}

DriftInputs == {Drifted(b, d) : b \in DriftBases, d \in Drifts}

\* arrays that parse_line_segments rejects, and arrays of fewer than 3 walls
RejectedInputs ==
    {<<>>,
     <<[type |-> "arc", start |-> <<0, 0>>, end |-> <<10, 0>>,
        is_load_bearing |-> FALSE]>>,
     Rect(0, 0, 100, 1001), Rect(0 - 1, 0, 100, 100)}

ShortInputs ==
    {<<Wall(<<0, 0>>, <<100, 0>>)>>,
     <<Wall(<<0, 0>>, <<100, 0>>), Wall(<<100, 0>>, <<100, 100>>)>>,
     <<Wall(<<0, 0>>, <<100, 100>>), Wall(<<0, 100>>, <<100, 0>>)>>}

Tolerances == {0, 5}

\* every input with the tolerance 1.0 of the JSON endpoint; the drifted and
\* the short ones also with the tolerances 0 and 5.0 (the PDF and image
\* endpoints pass 5.0)
InputCases ==
    ((RectInputs \cup DividedRectInputs \cup SharedWallInputs \cup GridInputs
        \cup StrayInputs \cup PolygonInputs \cup DriftInputs
        \cup RejectedInputs \cup ShortInputs) \X {1}) \cup
    ((DriftInputs \cup ShortInputs) \X Tolerances)

(***************************************************************************)
(* JSON values handed to parse_line_segments                               *)
(***************************************************************************)
JPair(x, y) == JArr(<<x, y>>)

JWall(type, start, end) ==
    JObj(("type" :> type) @@ ("start" :> start) @@ ("end" :> end))

WithLoadBearing(wall, v) ==
    JObj(wall.fields @@ ("is_load_bearing" :> v))

Without(wall, field) ==
    JObj([f \in DOMAIN wall.fields \ {field} |-> wall.fields[f]])

JLine(x0, y0, x1, y1) ==
    JWall(JStr("line"), JPair(JNum(x0), JNum(y0)), JPair(JNum(x1), JNum(y1)))

\* records the parser accepts, with and without is_load_bearing
PlainWalls ==
    {JLine(0, 0, 100, 100), JLine(1000, 0, 0, 1000),
     WithLoadBearing(JLine(0, 0, 100, 0), JBool(TRUE)),
     WithLoadBearing(JLine(5, 5, 5, 100), JBool(FALSE))}

\* values put where a coordinate pair belongs
PairValues ==
    {JNull, JStr("0,0"), JNum(0), JObj(<<>>), JArr(<<>>), JArr(<<JNum(0)>>),
     JArr(<<JNum(0), JNum(0), JNum(0)>>),
     JPair(JStr("abc"), JNum(0)), JPair(JNum(0), JNull),
     JPair(JArr(<<>>), JNum(0)), JPair(JNum(0), JObj(<<>>)),
     JPair(JNum(0 - 10), JNum(0)), JPair(JNum(0), JNum(1001)),
     JPair(JNaN, JNum(0)), JPair(JStr("1001"), JNum(0)),
     JPair(JStr("0"), JStr("5")), JPair(JBool(TRUE), JBool(FALSE)),
     JPair(JNum(1000), JNum(0))}

\* records of every other shape
OddWalls ==
    {JNull, JNum(1), JStr("wall"), JArr(<<>>), JObj(<<>>)} \cup
    {Without(JLine(0, 0, 100, 100), f) : f \in {"type", "start", "end"}} \cup
    {JWall(t, JPair(JNum(0), JNum(0)), JPair(JNum(100), JNum(100))) :
        t \in {JStr("arc"), JStr("Line"), JNum(1), JNull}} \cup
    {JWall(JStr("line"), v, JPair(JNum(100), JNum(100))) : v \in PairValues}
    \cup
    {JWall(JStr("line"), JPair(JNum(0), JNum(0)), v) : v \in PairValues} \cup
    {WithLoadBearing(JLine(0, 0, 100, 100), v) :
        v \in {JStr("true"), JNum(1), JNum(0), JNull, JArr(<<>>)}}

JsonInputs ==
    {JNull, JNum(3), JStr("walls"), JObj(<<>>), JLine(0, 0, 100, 100),
     JArr(<<>>)} \cup
    {JArr(<<w>>) : w \in PlainWalls \cup OddWalls} \cup
    {JArr(<<g, w>>) : g \in PlainWalls, w \in PlainWalls \cup OddWalls} \cup
    {JArr(<<w, g>>) : g \in PlainWalls, w \in OddWalls} \cup
    {JArr(<<g, h, g>>) : g \in PlainWalls, h \in PlainWalls}

(***************************************************************************)
(* State: the request (walls, tolerance), the position of the call, and    *)
(* what detect_rooms, build_wall_graph and detect_cycles returned; and,    *)
(* for a function called on its own, the call with its arguments and what  *)
(* it returned; and the local variables of find_faces_in_planar_graph      *)
(* while it runs.                                                          *)
(***************************************************************************)
VARIABLES walls, tolerance, pc, faces, used_polygonize, valid_faces, rooms,
          graph, cycles, call, returned, locals

vars == <<walls, tolerance, pc, faces, used_polygonize, valid_faces, rooms,
          graph, cycles, call, returned, locals>>

\* no call of find_faces_in_planar_graph in progress
NoLocals ==
    [all_cycles |-> <<>>, edges |-> <<>>, edge |-> <<>>,
     graph_temp |-> EmptyGraph]

NoCall == [fn |-> "none"]

NotReturned == [done |-> FALSE]

Init ==
    /\ \E c \in InputCases : walls = c[1] /\ tolerance = c[2]
    /\ pc = "ready"
    /\ faces = <<>>
    /\ used_polygonize = FALSE
    /\ valid_faces = <<>>
    /\ rooms = <<>>
    /\ graph = EmptyGraph
    /\ cycles = <<>>
    /\ call = NoCall
    /\ returned = NotReturned
    /\ locals = NoLocals

\* detect_rooms(json, tolerance), first call or a repeated one; it raises
\* what parse_line_segments raises
DetectRooms ==
    /\ pc \in {"ready", "done"}
    /\ IF ParseRaises(walls)
       THEN /\ pc' = "raised"
            /\ UNCHANGED <<faces, used_polygonize, valid_faces, rooms>>
       ELSE LET segments == parse_line_segments(walls)
                polygon_faces == find_faces_using_polygonize(segments)
            IN  \E order \in (IF Len(polygon_faces) > 0 THEN {<<>>}
                              ELSE SnapOrders(segments, tolerance)) :
                    LET r == DetectFaces(segments, tolerance, polygon_faces,
                                         order)
                    IN  /\ faces' = r.faces
                        /\ used_polygonize' = r.used_polygonize
                        /\ valid_faces' = r.valid_faces
                        /\ rooms' = BuildRooms(r.valid_faces, r.used_polygonize)
                        /\ pc' = "done"
    /\ UNCHANGED <<walls, tolerance, graph, cycles, call, returned, locals>>

\* build_wall_graph(segments, tolerance) on the parsed walls, first call
\* or a repeated one
BuildWallGraph ==
    /\ pc \in {"ready", "graph"}
    /\ ~ParseRaises(walls)
    /\ \E order \in SnapOrders(parse_line_segments(walls), tolerance) :
          graph' = build_wall_graph(parse_line_segments(walls), tolerance, order)
    /\ pc' = "graph"
    /\ UNCHANGED <<walls, tolerance, faces, used_polygonize, valid_faces,
                   rooms, cycles, call, returned, locals>>

\* detect_cycles(graph), first call or a repeated one
DetectCycles ==
    /\ pc \in {"graph", "cycles"}
    /\ cycles' = detect_cycles(graph)
    /\ pc' = "cycles"
    /\ UNCHANGED <<walls, tolerance, faces, used_polygonize, valid_faces,
                   rooms, graph, call, returned, locals>>

Next == DetectRooms \/ BuildWallGraph \/ DetectCycles

Spec == Init /\ [][Next]_vars

(***************************************************************************)
(* Functions called on their own                                           *)
(***************************************************************************)
ParseCalls == {[fn |-> "parse_line_segments", data |-> j] : j \in JsonInputs}

\* boxes (min_x, min_y, max_x, max_y), min <= max, inside the target range,
\* across its borders, around it and beside it
BoxMarks == {0 - 500, 0, 100, 500, 1000, 1100, 2000, 2500}

Boxes4 ==
    {b \in BoxMarks \X BoxMarks \X BoxMarks \X BoxMarks :
        b[1] <= b[3] /\ b[2] <= b[4]}

NormalizeCalls == {[fn |-> "normalize_bounding_box", bbox |-> b] : b \in Boxes4}

\* how often normalize_bounding_box is applied to its own result
MaxApplications == 3

\* faces handed to filter_cycles, each with its area and perimeter worked
\* out by hand (rectangles w x h: w * h and 2 * (w + h); right triangles
\* with sides 30, 40, 50: 600 and 120) and whether its ring is simple
FaceTable ==
    {[points |-> <<<<0, 0>>, <<10, 0>>, <<10, 10>>, <<0, 10>>>>,
      area |-> 100, perimeter |-> 40, simple |-> TRUE],
     [points |-> <<<<0, 0>>, <<5, 0>>, <<5, 5>>, <<0, 5>>>>,
      area |-> 25, perimeter |-> 20, simple |-> TRUE],
     [points |-> <<<<0, 0>>, <<200, 0>>, <<200, 1>>, <<0, 1>>>>,
      area |-> 200, perimeter |-> 402, simple |-> TRUE],
     [points |-> <<<<0, 0>>, <<900, 0>>, <<900, 1000>>, <<0, 1000>>>>,
      area |-> 900000, perimeter |-> 3800, simple |-> TRUE],
     [points |-> <<<<0, 0>>, <<1000, 0>>, <<1000, 1000>>, <<0, 1000>>>>,
      area |-> 1000000, perimeter |-> 4000, simple |-> TRUE],
     [points |-> <<<<0, 0>>, <<40, 0>>, <<0, 30>>>>,
      area |-> 600, perimeter |-> 120, simple |-> TRUE],
     [points |-> <<<<100, 100>>, <<100, 130>>, <<140, 100>>>>,
      area |-> 600, perimeter |-> 120, simple |-> TRUE],
     [points |-> <<<<0, 0>>, <<100, 100>>, <<100, 0>>, <<0, 50>>>>,
      area |-> 2500, perimeter |-> 400, simple |-> FALSE],
     [points |-> <<<<0, 0>>, <<100, 0>>, <<0, 100>>, <<100, 100>>>>,
      area |-> 0, perimeter |-> 482, simple |-> FALSE],
     [points |-> <<<<0, 0>>, <<10, 0>>, <<20, 0>>>>,
      area |-> 0, perimeter |-> 40, simple |-> FALSE],
     [points |-> <<<<0, 0>>, <<100, 0>>>>,
      area |-> 0, perimeter |-> 200, simple |-> FALSE],
     [points |-> <<>>, area |-> 0, perimeter |-> 0, simple |-> FALSE]}

TableFaces == {sh.points : sh \in FaceTable}

FaceLists ==
    {<<>>} \cup {<<f>> : f \in TableFaces} \cup
    {<<f, g>> : f \in TableFaces, g \in TableFaces} \cup
    {<<f, g, f>> : f \in TableFaces, g \in TableFaces}

\* (min_area, min_perimeter, max_area): the values detect_rooms passes,
\* those of the tests, and values next to the sizes of the faces
Thresholds ==
    {<<100, 40, 900000>>, <<100, 200, 900000>>, <<100, 40, 2000000>>,
     <<101, 40, 899999>>, <<100, 41, 900000>>, <<0, 0, 600>>}

FilterCalls ==
    {[fn |-> "filter_cycles", cycles |-> fl, min_area |-> t[1],
      min_perimeter |-> t[2], max_area |-> t[3]] :
        fl \in FaceLists, t \in Thresholds}

\* WallSegment(start, end)
Seg(p, q) == [start |-> p, end |-> q, is_load_bearing |-> FALSE]

\* the segments of the closed chain through pts
Loop(pts) ==
    [i \in 1..Len(pts) |-> Seg(pts[i], pts[(i % Len(pts)) + 1])]

Square(lo, hi) == Loop(<<<<lo, lo>>, <<hi, lo>>, <<hi, hi>>, <<lo, hi>>>>)

\* segment lists for snap_endpoints, build_wall_graph and detect_cycles:
\* one segment given twice, in the same and in the opposite direction and
\* beside itself; a segment shorter than the tolerance; a segment of
\* length 0 (test_overlapping_endpoints); three end points
\* near one junction (test_snap_multiple_endpoints); end points in a row,
\* each near the next; a square with one side given twice; a loop that
\* does not close exactly; one square inside another
\* (test_outer_and_inner_cycle), and one nearly filling the other
SegmentLists ==
    {<<Seg(<<0, 0>>, <<100, 0>>), Seg(<<0, 0>>, <<100, 0>>)>>,
     <<Seg(<<0, 0>>, <<100, 0>>), Seg(<<100, 0>>, <<0, 0>>)>>,
     <<Seg(<<0, 0>>, <<100, 0>>), Seg(<<0, 1>>, <<100, 1>>)>>,
     <<Seg(<<0, 0>>, <<3, 0>>), Seg(<<3, 0>>, <<100, 0>>)>>,
     <<Seg(<<0, 0>>, <<100, 0>>), Seg(<<100, 0>>, <<100, 0>>),
       Seg(<<100, 0>>, <<100, 100>>)>>,
     <<Seg(<<0, 0>>, <<100, 0>>), Seg(<<101, 1>>, <<100, 100>>),
       Seg(<<99, 2>>, <<200, 0>>)>>,
     <<Seg(<<0, 0>>, <<100, 100>>), Seg(<<4, 0>>, <<200, 100>>),
       Seg(<<8, 0>>, <<300, 100>>)>>,
     Square(0, 100) \o <<Seg(<<0, 0>>, <<100, 0>>)>>,
     Loop(<<<<0, 0>>, <<100, 0>>, <<50, 100>>>>),
     <<Seg(<<0, 0>>, <<100, 0>>), Seg(<<100, 0>>, <<50, 100>>),
       Seg(<<50, 101>>, <<0, 0>>)>>,
     Square(0, 200) \o Square(50, 150),
     Square(0, 100) \o Square(5, 95),
     Square(0, 200) \o Square(300, 400),
     <<Seg(<<0, 0>>, <<100, 0>>)>>,
     <<>>}

CallTolerances == {0, 1, 5}

GraphCalls ==
    {[fn |-> f, segments |-> sl, tolerance |-> t] :
        f \in {"snap_endpoints", "build_wall_graph", "detect_cycles"},
        sl \in SegmentLists, t \in CallTolerances}

\* a room 100 x 100 with 10 corners, 6 of them along its walls
TenCorners ==
    <<<<0, 0>>, <<20, 0>>, <<40, 0>>, <<60, 0>>, <<80, 0>>, <<100, 0>>,
      <<100, 100>>, <<50, 100>>, <<0, 100>>, <<0, 50>>>>

\* a room 100 x 100 with 22 corners, 11 along each of two walls
ManyCorners ==
    [i \in 1..22 |-> IF i <= 11 THEN <<10 * (i - 1), 0>>
                     ELSE <<10 * (22 - i), 100>>]

\* faces given to calculate_confidence_score: compact and thin, small,
\* room-sized and large, of few and of many corners, one whose edges
\* cross, and two that are no polygon
ScoreFaces ==
    {<<<<0, 0>>, <<100, 0>>, <<100, 100>>, <<0, 100>>>>,
     <<<<0, 0>>, <<10, 0>>, <<10, 10>>, <<0, 10>>>>,
     <<<<0, 0>>, <<22, 0>>, <<22, 4>>, <<0, 4>>>>,
     <<<<0, 0>>, <<200, 0>>, <<200, 1>>, <<0, 1>>>>,
     <<<<0, 0>>, <<900, 0>>, <<900, 1000>>, <<0, 1000>>>>,
     <<<<0, 0>>, <<100, 0>>, <<100, 20>>, <<0, 20>>>>,
     <<<<0, 0>>, <<100, 0>>, <<100, 10>>, <<0, 10>>>>,
     <<<<0, 0>>, <<400, 0>>, <<400, 10>>, <<0, 10>>>>,
     <<<<0, 0>>, <<40, 0>>, <<0, 30>>>>,
     TenCorners,
     ManyCorners,
     <<<<0, 0>>, <<100, 0>>, <<0, 100>>, <<100, 100>>>>,
     <<<<0, 0>>, <<100, 0>>>>,
     <<<<0, 0>>>>}

ScoreCalls ==
    {[fn |-> "calculate_confidence_score", face |-> f, total_faces |-> n,
      used_polygonize |-> u] :
        f \in ScoreFaces, n \in 1..3, u \in BOOLEAN}

Calls ==
    ParseCalls \cup NormalizeCalls \cup FilterCalls \cup GraphCalls
    \cup ScoreCalls

FunctionInit ==
    /\ call \in Calls
    /\ returned = NotReturned
    /\ walls = <<>>
    /\ tolerance = 1
    /\ pc = "ready"
    /\ faces = <<>>
    /\ used_polygonize = FALSE
    /\ valid_faces = <<>>
    /\ rooms = <<>>
    /\ graph = EmptyGraph
    /\ cycles = <<>>
    /\ locals = NoLocals

request == <<walls, tolerance, pc, faces, used_polygonize, valid_faces, rooms,
             graph, cycles, locals>>

\* parse_line_segments(json_data) on the loaded value
ParseLineSegments ==
    /\ call.fn = "parse_line_segments"
    /\ ~returned.done
    /\ returned' = [done |-> TRUE,
                    raised |-> parse_json_data(call.data).raised,
                    value |-> parse_json_data(call.data).value]
    /\ UNCHANGED <<call, request>>

\* normalize_bounding_box(bbox), and again on the box it returned when that
\* box has whole coordinates
NormalizeBoundingBox ==
    /\ call.fn = "normalize_bounding_box"
    /\ LET times == IF returned.done THEN returned.times ELSE 0
           bbox == IF returned.done
                   THEN [k \in 1..4 |-> returned.box[k] \div returned.unit]
                   ELSE call.bbox
       IN  /\ times < MaxApplications
           /\ returned.done =>
                  \A k \in 1..4 : returned.box[k] % returned.unit = 0
           /\ returned' = [done |-> TRUE, times |-> times + 1, of |-> bbox,
                           unit |-> NormalizedExact(bbox).unit,
                           box |-> NormalizedExact(bbox).box]
    /\ UNCHANGED <<call, request>>

\* filter_cycles(cycles, min_area, min_perimeter, max_area), and what
\* detect_rooms makes of the same faces (line 672)
FilterCycles ==
    /\ call.fn = "filter_cycles"
    /\ ~returned.done
    /\ returned' =
          [done |-> TRUE,
           value |-> filter_cycles(call.cycles, call.min_area,
                                   call.min_perimeter, call.max_area),
           in_detect_rooms |->
               DetectFaces(<<>>, 1, call.cycles, <<>>).valid_faces]
    /\ UNCHANGED <<call, request>>

\* snap_endpoints(segments, tolerance), the endpoint set visited in one of
\* its orders
SnapEndpoints ==
    /\ call.fn = "snap_endpoints"
    /\ ~returned.done
    /\ \E order \in SnapOrders(call.segments, call.tolerance) :
          returned' = [done |-> TRUE,
                       value |-> snap_endpoints(call.segments, call.tolerance,
                                                order)]
    /\ UNCHANGED <<call, request>>

\* build_wall_graph(segments, tolerance); endpoint_map is the map it got
\* from snap_endpoints (line 58)
CallBuildWallGraph ==
    /\ call.fn = "build_wall_graph"
    /\ ~returned.done
    /\ \E order \in SnapOrders(call.segments, call.tolerance) :
          returned' = [done |-> TRUE,
                       endpoint_map |-> snap_endpoints(call.segments,
                                                       call.tolerance, order),
                       value |-> build_wall_graph(call.segments,
                                                  call.tolerance, order)]
    /\ UNCHANGED <<call, request>>

\* detect_cycles(build_wall_graph(segments, tolerance))
CallDetectCycles ==
    /\ call.fn = "detect_cycles"
    /\ ~returned.done
    /\ \E order \in SnapOrders(call.segments, call.tolerance) :
          returned' = [done |-> TRUE,
                       graph |-> build_wall_graph(call.segments,
                                                  call.tolerance, order),
                       value |-> detect_cycles(
                                    build_wall_graph(call.segments,
                                                     call.tolerance, order))]
    /\ UNCHANGED <<call, request>>

\* calculate_confidence_score(face, total_faces, used_polygonize), in
\* hundredths, and round(confidence, 2) as detect_rooms stores it
CalculateConfidenceScore ==
    /\ call.fn = "calculate_confidence_score"
    /\ ~returned.done
    /\ returned' = [done |-> TRUE,
                    value |-> calculate_confidence_score(
                                 call.face, call.total_faces,
                                 call.used_polygonize)]
    /\ UNCHANGED <<call, request>>

FunctionNext ==
    \/ CalculateConfidenceScore
    \/ ParseLineSegments
    \/ NormalizeBoundingBox
    \/ FilterCycles
    \/ SnapEndpoints
    \/ CallBuildWallGraph
    \/ CallDetectCycles

FunctionSpec == FunctionInit /\ [][FunctionNext]_vars

(***************************************************************************)
(* detect_rooms and detect_cycles statement by statement: the order of     *)
(* the two strategies, and find_faces_in_planar_graph with its loop over   *)
(* the edges of the graph                                                  *)
(***************************************************************************)
\* two rooms side by side whose loops do not close exactly: the last wall
\* of each starts beside the corner it should start from
DriftedPair ==
    <<Wall(<<10, 10>>, <<110, 10>>), Wall(<<110, 10>>, <<110, 110>>),
      Wall(<<110, 110>>, <<10, 110>>), Wall(<<9, 111>>, <<10, 10>>),
      Wall(<<110, 10>>, <<210, 10>>), Wall(<<210, 10>>, <<210, 110>>),
      Wall(<<211, 111>>, <<110, 110>>)>>

\* a square with both diagonals: several loops pass through the same
\* four corners
CrossedSquare ==
    Rect(0, 0, 100, 100) \o
    <<Wall(<<0, 0>>, <<100, 100>>), Wall(<<100, 0>>, <<0, 100>>)>>

StepTolerances == {0, 1, 5}

\* one rectangle inside another (test_outer_and_inner_cycle), also one
\* that nearly fills the other; given to detect_cycles only
NestedInputs ==
    {Rect(0, 0, 200, 200) \o Rect(50, 50, 150, 150),
     Rect(0, 0, 100, 100) \o Rect(5, 5, 95, 95),
     Rect(0, 0, 100, 100) \o Rect(10, 10, 90, 90)}

\* points on each long side of the loop below
LoopSidePoints == 11

\* one room whose two long sides are given piece by piece: a single loop
\* through 2 * LoopSidePoints corners; given to detect_cycles only
LongLoop ==
    Chain([i \in 1..(2 * LoopSidePoints) |->
              IF i <= LoopSidePoints THEN <<10 * (i - 1), 0>>
              ELSE <<10 * (2 * LoopSidePoints - i), 100>>])

GraphOnlyInputs == NestedInputs \cup {LongLoop}

StepCases ==
    ((PolygonInputs \cup SharedWallInputs \cup RejectedInputs
        \cup {CrossedSquare} \cup GraphOnlyInputs) \X {1}) \cup
    ((DriftInputs \cup ShortInputs \cup {DriftedPair}) \X StepTolerances)

StepCalls == {[fn |-> "detect_rooms"], [fn |-> "detect_cycles"]}

StepInit ==
    /\ \E c \in StepCases :
          /\ walls = c[1]
          /\ tolerance = c[2]
          /\ call \in IF c[1] \in GraphOnlyInputs
                      THEN {[fn |-> "detect_cycles"]} ELSE StepCalls
    /\ returned = NotReturned
    /\ pc = "ready"
    /\ faces = <<>>
    /\ used_polygonize = FALSE
    /\ valid_faces = <<>>
    /\ rooms = <<>>
    /\ graph = EmptyGraph
    /\ cycles = <<>>
    /\ locals = NoLocals

\* segments = parse_line_segments(json_path) (line 657)
Parse ==
    /\ pc = "ready"
    /\ pc' = IF ParseRaises(walls) THEN "raised" ELSE "parsed"
    /\ UNCHANGED <<walls, tolerance, faces, used_polygonize, valid_faces,
                   rooms, graph, cycles, call, returned, locals>>

\* lines 660-661
Polygonize ==
    /\ call.fn = "detect_rooms"
    /\ pc = "parsed"
    /\ faces' = find_faces_using_polygonize(parse_line_segments(walls))
    /\ used_polygonize' = (Len(faces') > 0)
    /\ pc' = "polygonized"
    /\ UNCHANGED <<walls, tolerance, valid_faces, rooms, graph, cycles, call,
                   returned, locals>>

\* BuildGraph taken by detect_rooms whatever Strategy A returned
BuildGraph_whatever_faces ==
    /\ \/ call.fn = "detect_rooms" /\ pc = "polygonized"
       \/ call.fn = "detect_cycles" /\ pc = "parsed"
    /\ \E order \in SnapOrders(parse_line_segments(walls), tolerance) :
          graph' = build_wall_graph(parse_line_segments(walls), tolerance,
                                    order)
    /\ pc' = "graph"
    /\ UNCHANGED <<walls, tolerance, faces, used_polygonize, valid_faces,
                   rooms, cycles, call, returned, locals>>

\* graph = build_wall_graph(segments, tolerance): line 666 of detect_rooms,
\* under "if not faces"; and what the callers of detect_cycles do first
BuildGraph ==
    /\ \/ call.fn = "detect_rooms" /\ pc = "polygonized" /\ Len(faces) = 0
       \/ call.fn = "detect_cycles" /\ pc = "parsed"
    /\ \E order \in SnapOrders(parse_line_segments(walls), tolerance) :
          graph' = build_wall_graph(parse_line_segments(walls), tolerance,
                                    order)
    /\ pc' = "graph"
    /\ UNCHANGED <<walls, tolerance, faces, used_polygonize, valid_faces,
                   rooms, cycles, call, returned, locals>>

\* nx.all_simple_paths cutoff (line 336)
Cutoff == 15

\* the simple paths of G that begin with path and end in target, of at
\* most cutoff edges
RECURSIVE SimplePathsFrom(_, _, _, _)
SimplePathsFrom(G, path, target, cutoff) ==
    LET last == path[Len(path)]
    IN  IF last = target THEN {path}
        ELSE IF Len(path) - 1 >= cutoff THEN {}
        ELSE UNION {SimplePathsFrom(G, Append(path, w), target, cutoff) :
                        w \in Neighbors(G, last) \ Range(path)}

\* the cycles [start] + path of lines 336-340 without their closing point,
\* of at least 3 nodes
CyclesOverEdge(G, start, end) ==
    {<<start>> \o SubSeq(path, 1, Len(path) - 1) :
        path \in {q \in SimplePathsFrom(G, <<end>>, start, Cutoff) :
                    Len(q) >= 3}}

\* AppendUnseen without the test on seen_cycles
AppendUnseen_every_cycle(all_cycles, found) == all_cycles \o found

\* all_cycles with the cycles of found whose sorted node tuple is not in
\* seen_cycles, in the order of found
RECURSIVE AppendUnseen(_, _)
AppendUnseen(all_cycles, found) ==
    IF Len(found) = 0 THEN all_cycles
    ELSE IF \E k \in 1..Len(all_cycles) :
                Range(all_cycles[k]) = Range(found[1])
         THEN AppendUnseen(all_cycles, Tail(found))
         ELSE AppendUnseen(Append(all_cycles, found[1]), Tail(found))

\* the edges of G as pairs (start, end), the lower point first, in
\* ascending order
RECURSIVE SortEdges(_)
SortEdges(S) ==
    IF S = {} THEN <<>>
    ELSE LET m == CHOOSE d \in S : \A e \in S \ {d} : EdgeLess(d, e)
         IN  <<m>> \o SortEdges(S \ {m})

EdgePairs(G) ==
    SortEdges({d \in G.nodes \X G.nodes :
                 /\ EdgeKey(d[1], d[2]) \in G.edges
                 /\ (d[1] = d[2] \/ PtLess(d[1], d[2]))})

\* list(graph.edges()) (line 326): every edge once, as networkx lists
\* them; taken here in ascending order, or backwards with the ends swapped
EdgeLists(G) ==
    LET up == EdgePairs(G)
        n == Len(up)
    IN  {up, [i \in 1..n |-> <<up[n + 1 - i][2], up[n + 1 - i][1]>>]}

\* lines 299-326: no face for fewer than 3 nodes; else Strategy 1 and
\* edges = list(graph.edges())
EnterFindFaces ==
    /\ pc = "graph"
    /\ IF Cardinality(graph.nodes) < 3
       THEN /\ faces' = <<>>
            /\ pc' = "faces"
            /\ UNCHANGED locals
       ELSE /\ \E edges \in EdgeLists(graph) :
                 locals' = [NoLocals EXCEPT
                              !.all_cycles =
                                  AppendUnseen(<<>>,
                                      SortCycles(SimpleCycles(graph))),
                              !.edges = edges]
            /\ pc' = "strategy2"
            /\ UNCHANGED faces
    /\ UNCHANGED <<walls, tolerance, used_polygonize, valid_faces, rooms,
                   graph, cycles, call, returned>>

\* the next pass of "for start, end in edges": graph_temp = graph.copy()
\* (line 328)
CopyGraph ==
    /\ pc = "strategy2"
    /\ Len(locals.edges) > 0
    /\ locals' = [locals EXCEPT
                    !.edges = Tail(@),
                    !.edge = Head(locals.edges),
                    !.graph_temp = graph]
    /\ pc' = "copied"
    /\ UNCHANGED <<walls, tolerance, faces, used_polygonize, valid_faces,
                   rooms, graph, cycles, call, returned>>

\* the edge removal performed on the graph that was passed in
RemoveEdge_from_graph ==
    /\ pc = "copied"
    /\ graph' = [graph EXCEPT
                   !.edges = @ \ {EdgeKey(locals.edge[1], locals.edge[2])}]
    /\ locals' = [locals EXCEPT !.graph_temp = graph']
    /\ pc' = "removed"
    /\ UNCHANGED <<walls, tolerance, faces, used_polygonize, valid_faces,
                   rooms, cycles, call, returned>>

\* graph_temp.remove_edge(start, end) (line 329)
RemoveEdge ==
    /\ pc = "copied"
    /\ locals' = [locals EXCEPT
                    !.graph_temp.edges =
                        @ \ {EdgeKey(locals.edge[1], locals.edge[2])}]
    /\ pc' = "removed"
    /\ UNCHANGED <<walls, tolerance, faces, used_polygonize, valid_faces,
                   rooms, graph, cycles, call, returned>>

\* lines 332-344: the cycles over the removed edge that are not seen yet
AddPathCycles ==
    /\ pc = "removed"
    /\ locals' = [locals EXCEPT
                    !.all_cycles =
                        AppendUnseen(@, SortCycles(
                            CyclesOverEdge(locals.graph_temp, locals.edge[1],
                                           locals.edge[2])))]
    /\ pc' = "strategy2"
    /\ UNCHANGED <<walls, tolerance, faces, used_polygonize, valid_faces,
                   rooms, graph, cycles, call, returned>>

\* Strategy 3 after the last edge (lines 361-399)
KeepMinimalFaces ==
    /\ pc = "strategy2"
    /\ Len(locals.edges) = 0
    /\ faces' = SelectSeq(locals.all_cycles,
                          LAMBDA c : IsMinimal(c, locals.all_cycles))
    /\ locals' = NoLocals
    /\ pc' = "faces"
    /\ UNCHANGED <<walls, tolerance, used_polygonize, valid_faces, rooms,
                   graph, cycles, call, returned>>

\* a statement of the try block raises: the cycle basis of lines 401-407
FallBackToCycleBasis ==
    /\ pc \in {"strategy2", "copied", "removed"}
    /\ faces' = CycleBasis3(graph)
    /\ locals' = NoLocals
    /\ pc' = "faces"
    /\ UNCHANGED <<walls, tolerance, used_polygonize, valid_faces, rooms,
                   graph, cycles, call, returned>>

\* detect_cycles after find_faces_in_planar_graph returned (lines 429-437)
ReturnCycles ==
    /\ call.fn = "detect_cycles"
    /\ pc = "faces"
    /\ cycles' = IF Len(faces) > 0 THEN faces ELSE CycleBasis3(graph)
    /\ pc' = "cycles"
    /\ UNCHANGED <<walls, tolerance, faces, used_polygonize, valid_faces,
                   rooms, graph, call, returned, locals>>

\* valid_faces = filter_cycles(faces, min_area=100.0, min_perimeter=40.0)
\* (line 672)
Filter ==
    /\ call.fn = "detect_rooms"
    /\ \/ pc = "polygonized" /\ Len(faces) > 0
       \/ pc = "faces"
    /\ valid_faces' = filter_cycles(faces, MinArea, MinPerimeter, MaxArea)
    /\ pc' = "filtered"
    /\ UNCHANGED <<walls, tolerance, faces, used_polygonize, rooms, graph,
                   cycles, call, returned, locals>>

\* lines 675-690
MakeRooms ==
    /\ pc = "filtered"
    /\ rooms' = BuildRooms(valid_faces, used_polygonize)
    /\ pc' = "done"
    /\ UNCHANGED <<walls, tolerance, faces, used_polygonize, valid_faces,
                   graph, cycles, call, returned, locals>>

StepNext ==
    \/ Parse
    \/ Polygonize
    \/ BuildGraph
    \/ EnterFindFaces
    \/ CopyGraph
    \/ RemoveEdge
    \/ AddPathCycles
    \/ KeepMinimalFaces
    \/ FallBackToCycleBasis
    \/ ReturnCycles
    \/ Filter
    \/ MakeRooms

StepSpec == StepInit /\ [][StepNext]_vars


(***************************************************************************)
(* Properties of detect_rooms                                              *)
(***************************************************************************)
Done == pc = "done"

Boxes == {rooms[i].bounding_box : i \in 1..Len(rooms)}

\* the axis-aligned bounds of the end points of walls lo..hi
WallsBox(lo, hi) ==
    LET xs == {walls[i].start[1] : i \in lo..hi} \cup
              {walls[i].end[1] : i \in lo..hi}
        ys == {walls[i].start[2] : i \in lo..hi} \cup
              {walls[i].end[2] : i \in lo..hi}
    IN  <<SetMin(xs), SetMin(ys), SetMax(xs), SetMax(ys)>>

\* an axis-aligned box is a room of plausible size: area in
\* [100, 900000], perimeter at least 40
BoxSizeOk(b) ==
    /\ (b[3] - b[1]) * (b[4] - b[2]) >= 100
    /\ (b[3] - b[1]) * (b[4] - b[2]) <= 900000
    /\ 2 * ((b[3] - b[1]) + (b[4] - b[2])) >= 40

IsSquareAtOrigin(side) == walls = Rect(0, 0, side, side) /\ tolerance = 1

\* C1 as stated: the square of side 1000 with tolerance 1.0 yields exactly
\* one room, room_001, with bounding box [0,0,1000,1000] and confidence >= 0.5
C1_SquareIsOneRoom ==
    (Done /\ IsSquareAtOrigin(1000)) =>
        /\ Len(rooms) = 1
        /\ rooms[1].id = "room_001"
        /\ rooms[1].bounding_box = <<0, 0, 1000, 1000>>
        /\ rooms[1].confidence >= 50

\* C1 amended: the square of side 1000 yields no room, its one face being
\* larger than max_area; a square of side s at the origin whose area lies in
\* [100, 900000] yields exactly one room, room_001, with bounding box
\* [0,0,s,s] and confidence >= 0.5
C1_SquareWithinMaxArea ==
    \A side \in Marks \ {0} :
        (Done /\ IsSquareAtOrigin(side)) =>
            IF 100 <= side * side /\ side * side <= 900000
            THEN /\ Len(rooms) = 1
                 /\ rooms[1].id = "room_001"
                 /\ rooms[1].bounding_box = <<0, 0, side, side>>
                 /\ rooms[1].confidence >= 50
            ELSE /\ rooms = <<>>
                 /\ Len(faces) = 1

C1_Witness ==
    /\ Done
    /\ IsSquareAtOrigin(1000)
    /\ rooms = <<>>
    /\ Len(faces) = 1
    /\ used_polygonize

C1_WitnessRoom == Done /\ IsSquareAtOrigin(900) /\ Len(rooms) = 1

\* the corner points of a closed chain of walls
ChainPoints == [i \in 1..Len(walls) |-> walls[i].start]

IsSinglePolygon == walls \in PolygonInputs \cup RectInputs

\* C2 as stated: a single simple closed polygon yields exactly 1 room whose
\* bounding box is the polygon's axis-aligned bounds
C2_PolygonIsOneRoom ==
    (Done /\ IsSinglePolygon) =>
        /\ Len(rooms) = 1
        /\ rooms[1].bounding_box = WallsBox(1, Len(walls))

\* C2 amended: a single simple closed polygon whose area lies in
\* [100, 900000] and whose perimeter is at least 40 yields exactly 1 room
\* with the polygon's bounds as bounding box; any other yields no room
C2_SizedPolygonIsOneRoom ==
    (Done /\ IsSinglePolygon) =>
        IF /\ Area2(ChainPoints) >= 200
           /\ Area2(ChainPoints) <= 1800000
           /\ Perimeter10(ChainPoints) >= 400
        THEN /\ Len(rooms) = 1
             /\ rooms[1].bounding_box = WallsBox(1, Len(walls))
        ELSE rooms = <<>>

C2_Witness ==
    /\ Done
    /\ walls \in PolygonInputs
    /\ Len(walls) = 3
    /\ Len(rooms) = 1
    /\ rooms[1].bounding_box = <<0, 0, 1000, 1000>>

\* the two parts of a rectangle (walls 1..4) divided by wall 5
DividedParts ==
    LET outer == WallsBox(1, 4)
        w == walls[5]
    IN  IF w.start[1] = w.end[1]
        THEN {<<outer[1], outer[2], w.start[1], outer[4]>>,
              <<w.start[1], outer[2], outer[3], outer[4]>>}
        ELSE {<<outer[1], outer[2], outer[3], w.start[2]>>,
              <<outer[1], w.start[2], outer[3], outer[4]>>}

\* C3 as stated: a rectangle with one interior wall between opposite
\* perimeter walls yields exactly 2 rooms, the two parts, never the outer
\* perimeter
C3_DividedIsTwoRooms ==
    (Done /\ walls \in DividedRectInputs) =>
        /\ Len(rooms) = 2
        /\ Boxes = DividedParts

\* C3 amended: such a rectangle yields one room for each of its two parts
\* whose area lies in [100, 900000] and whose perimeter is at least 40
\* (2 rooms when both do), and never a room for the outer perimeter
C3_DividedSizedParts ==
    (Done /\ walls \in DividedRectInputs) =>
        /\ Boxes = {b \in DividedParts : BoxSizeOk(b)}
        /\ Len(rooms) = Cardinality({b \in DividedParts : BoxSizeOk(b)})
        /\ WallsBox(1, 4) \notin Boxes
        /\ used_polygonize

C3_Witness ==
    /\ Done
    /\ walls \in DividedRectInputs
    /\ Len(rooms) = 2
    /\ Boxes = DividedParts

\* the two rectangles of a shared-wall input: walls 1..4 and walls 5..7
SharedParts == {WallsBox(1, 4), WallsBox(5, 7)}

\* C4 as stated: two rectangles sharing one wall (7 walls) yield exactly 2
\* rooms with the boxes of the two rectangles, none with the box of their
\* union
C4_SharedWallIsTwoRooms ==
    (Done /\ walls \in SharedWallInputs) =>
        /\ Len(rooms) = 2
        /\ Boxes = SharedParts
        /\ WallsBox(1, 7) \notin Boxes

\* C4 amended: they yield one room for each of the two rectangles whose
\* area lies in [100, 900000] and whose perimeter is at least 40 (2 rooms
\* when both do), and no room has the box of the union rectangle
C4_SharedWallSizedParts ==
    (Done /\ walls \in SharedWallInputs) =>
        /\ Boxes = {b \in SharedParts : BoxSizeOk(b)}
        /\ Len(rooms) = Cardinality({b \in SharedParts : BoxSizeOk(b)})
        /\ WallsBox(1, 7) \notin Boxes

C4_Witness ==
    /\ Done
    /\ walls \in SharedWallInputs
    /\ Len(rooms) = 2
    /\ Boxes = SharedParts

\* the cells of the R x C grid of w x h rooms
GridCells(g) ==
    {<<c * g[3], r * g[4], (c + 1) * g[3], (r + 1) * g[4]>> :
        r \in 0..(g[1] - 1), c \in 0..(g[2] - 1)}

\* C5: an R x C grid given by its perimeter and its full dividers, each
\* cell passing the size filter, yields exactly R * C rooms, one per cell
C5_GridYieldsCells ==
    (Done /\ walls \in GridInputs) =>
        \A g \in GridShapes :
            (walls = GridWalls(g[1], g[2], g[3], g[4])
               /\ BoxSizeOk(<<0, 0, g[3], g[4]>>)) =>
                /\ Len(rooms) = g[1] * g[2]
                /\ Boxes = GridCells(g)

C5_Witness ==
    /\ Done
    /\ walls = GridWalls(MaxGrid, MaxGrid, 10, 250)
    /\ Len(rooms) = MaxGrid * MaxGrid

\* C6: a rectangle passing the size filter together with one wall that
\* touches nothing yields exactly 1 room, the rectangle, and no error
C6_StrayWallAddsNothing ==
    (walls \in StrayInputs /\ BoxSizeOk(WallsBox(1, 4))) =>
        /\ pc # "raised"
        /\ Done => /\ Len(rooms) = 1
                   /\ rooms[1].bounding_box = WallsBox(1, 4)

C6_Witness ==
    /\ Done
    /\ walls \in StrayInputs
    /\ BoxSizeOk(WallsBox(1, 4))
    /\ Len(rooms) = 1

\* faces calculate_confidence_score is asked about: those detected, their
\* first point and first two points (Polygon raises), and each with its
\* first two points exchanged (a self-crossing ring where it has 4 points)
ProbeFaces ==
    Range(faces) \cup
    {SubSeq(f, 1, 1) : f \in Range(faces)} \cup
    {SubSeq(f, 1, 2) : f \in Range(faces)} \cup
    {<<f[2], f[1]>> \o SubSeq(f, 3, Len(f)) : f \in Range(faces)} \cup
    {<<>>}

\* C7: every value of calculate_confidence_score, for any face and either
\* strategy flag, invalid and raising polygons included, and the confidence
\* of every room, lies in [0.0, 1.0] (0..100 hundredths)
C7_ConfidenceBounds ==
    /\ \A i \in 1..Len(rooms) :
           rooms[i].confidence >= 0 /\ rooms[i].confidence <= 100
    /\ \A f \in ProbeFaces : \A flag \in BOOLEAN :
           /\ calculate_confidence_score(f, Len(faces), flag) >= 0
           /\ calculate_confidence_score(f, Len(faces), flag) <= 100

C7_Witness ==
    /\ Done
    /\ Len(rooms) >= 2
    /\ \E f \in ProbeFaces : PolygonRaises(f)
    /\ \E f \in ProbeFaces : ~PolygonRaises(f) /\ ~PolygonIsValid(f)
    /\ \E i \in 1..Len(rooms) : rooms[i].confidence = 100

\* C8: every room's bounding_box has exactly 4 numbers (min_x, min_y,
\* max_x, max_y) with min_x <= max_x, min_y <= max_y, all within [0, 1000]
C8_BoundingBoxContract ==
    \A i \in 1..Len(rooms) :
        LET b == rooms[i].bounding_box
        IN  /\ Len(b) = 4
            /\ b[1] <= b[3]
            /\ b[2] <= b[4]
            /\ \A k \in 1..4 : b[k] >= 0 /\ b[k] <= 1000

C8_Witness ==
    /\ Done
    /\ \E i \in 1..Len(rooms) :
           rooms[i].bounding_box = <<900, 0, 1000, 1000>>
    /\ \E i \in 1..Len(rooms) :
           rooms[i].bounding_box = <<0, 0, 900, 1000>>

\* the axis-aligned bounds of the points of a face
WallsBoxOf(face) ==
    LET xs == {face[i][1] : i \in 1..Len(face)}
        ys == {face[i][2] : i \in 1..Len(face)}
    IN  <<SetMin(xs), SetMin(ys), SetMax(xs), SetMax(ys)>>

\* the ids and name hints of the first rooms, written out
ExpectedIds ==
    <<"room_001", "room_002", "room_003", "room_004", "room_005",
      "room_006", "room_007", "room_008", "room_009", "room_010",
      "room_011", "room_012", "room_013", "room_014", "room_015",
      "room_016", "room_017", "room_018", "room_019", "room_020">>

ExpectedHints ==
    <<"Room 1", "Room 2", "Room 3", "Room 4", "Room 5", "Room 6", "Room 7",
      "Room 8", "Room 9", "Room 10", "Room 11", "Room 12", "Room 13",
      "Room 14", "Room 15", "Room 16", "Room 17", "Room 18", "Room 19",
      "Room 20">>

\* the faces that pass the size filter, in the order of faces
SurvivingFaces ==
    SelectSeq(faces,
              LAMBDA f : /\ Len(f) >= 3
                         /\ IsValidPolygon(f)
                         /\ Area2(f) >= 200
                         /\ Area2(f) <= 1800000
                         /\ Perimeter10(f) >= 400)

\* C9: with n rooms, the room at 0-based position i has id "room_" followed
\* by i+1 padded to 3 digits and name_hint "Room {i+1}"; ids are pairwise
\* distinct, positions follow the order in which faces survive
\* filter_cycles, and n is the number of surviving faces
C9_IdsFollowSurvivalOrder ==
    Done =>
        /\ Len(rooms) = Len(SurvivingFaces)
        /\ Len(rooms) <= Len(ExpectedIds)
        /\ \A i \in 1..Len(rooms) :
               /\ rooms[i].id = ExpectedIds[i]
               /\ rooms[i].name_hint = ExpectedHints[i]
               /\ rooms[i].bounding_box = WallsBoxOf(SurvivingFaces[i])
        /\ \A i \in 1..Len(rooms) : \A j \in 1..Len(rooms) :
               rooms[i].id = rooms[j].id => i = j

C9_Witness ==
    /\ Done
    /\ Len(rooms) = LongRow
    /\ rooms[LongRow].id = ExpectedIds[LongRow]
    /\ Len(faces) = LongRow

C10_RepeatedGraphsAgree ==
    [][(pc = "graph" /\ pc' = "graph") =>
          /\ graph'.nodes = graph.nodes
          /\ graph'.edges = graph.edges]_vars

IsSegmentList == \A i \in 1..Len(walls) : WallOk(walls[i])

\* C11 as stated: for every list of 0, 1 or 2 segments detect_rooms returns
\* an empty room list and raises no error
C11_FewSegmentsNeverRaise ==
    (Len(walls) < 3 /\ IsSegmentList) =>
        /\ pc # "raised"
        /\ Done => rooms = <<>>

\* C11 amended: for every list of 1 or 2 segments detect_rooms returns an
\* empty room list and raises no error; for the empty list it raises the
\* error of parse_line_segments and returns nothing
C11_OneOrTwoSegmentsYieldNoRoom ==
    /\ (Len(walls) \in {1, 2} /\ IsSegmentList) =>
           /\ pc # "raised"
           /\ Done => rooms = <<>>
    /\ (walls = <<>> /\ pc # "ready") => (pc = "raised" /\ rooms = <<>>)

C11_Witness ==
    /\ Done
    /\ Len(walls) = 2
    /\ IsSegmentList
    /\ tolerance = 5
    /\ rooms = <<>>

(***************************************************************************)
(* Properties of parse_line_segments                                       *)
(***************************************************************************)
Parsed == call.fn = "parse_line_segments" /\ returned.done

IsNumber(v) == v.kind = "number"

IsNumberPair(v) ==
    /\ v.kind = "array"
    /\ Len(v.items) = 2
    /\ IsNumber(v.items[1])
    /\ IsNumber(v.items[2])

\* a record that the parser has to refuse
Refused(wall) ==
    \/ wall.kind # "object"
    \/ {"type", "start", "end"} \ DOMAIN wall.fields # {}
    \/ wall.fields["type"] # JStr("line")
    \/ ~IsNumberPair(wall.fields["start"])
    \/ ~IsNumberPair(wall.fields["end"])
    \/ \E v \in Range(wall.fields["start"].items) \cup
                Range(wall.fields["end"].items) :
           ~(v.finite /\ 0 <= v.value /\ v.value <= 1000)
    \/ /\ "is_load_bearing" \in DOMAIN wall.fields
       /\ wall.fields["is_load_bearing"].kind # "bool"

\* an input that the parser has to refuse
RefusedInput(data) ==
    \/ data.kind # "array"
    \/ Len(data.items) = 0
    \/ \E i \in 1..Len(data.items) : Refused(data.items[i])

\* C12: parse_line_segments either returns one WallSegment per record, in
\* input order, is_load_bearing false where absent, or raises and returns
\* nothing; it raises whenever the root is not a non-empty array or a
\* record is not an object, lacks type/start/end, has another type than
\* "line", a start or end that is not a 2-element array of numbers, a
\* coordinate outside [0,1000] or a non-boolean is_load_bearing
C12_ParserAllOrNothing ==
    Parsed =>
        /\ RefusedInput(call.data) => returned.raised
        /\ returned.raised => returned.value = <<>>
        /\ ~returned.raised =>
               /\ Len(returned.value) = Len(call.data.items)
               /\ \A i \in 1..Len(returned.value) :
                      LET wall == call.data.items[i].fields
                          seg == returned.value[i]
                      IN  /\ JPair(JNum(seg.start[1]), JNum(seg.start[2]))
                                = wall["start"]
                          /\ JPair(JNum(seg.end[1]), JNum(seg.end[2]))
                                = wall["end"]
                          /\ seg.is_load_bearing =
                                ("is_load_bearing" \in DOMAIN wall
                                    /\ wall["is_load_bearing"].value)

(***************************************************************************)
(* Properties of normalize_bounding_box.  returned.of is the box it was    *)
(* applied to, returned.box[k] / returned.unit the coordinates it returned.*)
(***************************************************************************)
Normalized == call.fn = "normalize_bounding_box" /\ returned.done

FitsRange(b) == b[1] >= 0 /\ b[3] <= 1000 /\ b[2] >= 0 /\ b[4] <= 1000

BoxWidth(b) == b[3] - b[1]

BoxHeight(b) == b[4] - b[2]

\* C13: a box whose four coordinates lie in the target range is returned
\* unchanged, and so is a box of zero width or zero height wherever it
\* lies; applying normalize to an in-range box any number of times gives
\* the same box
C13_FittingOrFlatBoxUnchanged ==
    Normalized =>
        /\ (FitsRange(returned.of) \/ BoxWidth(returned.of) = 0
                \/ BoxHeight(returned.of) = 0) =>
               (returned.unit = 1 /\ returned.box = returned.of)
        /\ FitsRange(call.bbox) => returned.box = call.bbox

C13_Witness ==
    /\ Normalized
    /\ returned.times = MaxApplications
    /\ FitsRange(call.bbox)
    /\ BoxWidth(call.bbox) > 0
    /\ BoxHeight(call.bbox) > 0
    /\ returned.box = call.bbox

\* C14: for a box of positive width and height that does not fit the
\* target range, the returned box has 0 <= min_x <= max_x <= 1000 and
\* 0 <= min_y <= max_y <= 1000, wherever the input box lies
C14_ScaledBoxInsideRange ==
    (Normalized /\ ~FitsRange(returned.of) /\ BoxWidth(returned.of) > 0
        /\ BoxHeight(returned.of) > 0) =>
        /\ 0 <= returned.box[1]
        /\ returned.box[1] <= returned.box[3]
        /\ returned.box[3] <= 1000 * returned.unit
        /\ 0 <= returned.box[2]
        /\ returned.box[2] <= returned.box[4]
        /\ returned.box[4] <= 1000 * returned.unit

RECURSIVE Gcd(_, _)
Gcd(a, b) == IF b = 0 THEN a ELSE Gcd(b, a % b)

\* a : b in lowest terms (a, b not both 0)
Ratio(a, b) == <<a \div Gcd(a, b), b \div Gcd(a, b)>>

\* C15: for a box larger than the target range (positive width and height)
\* the returned box is scaled down, never up, and has the width : height
\* ratio of the input box, also after the clamp
C15_LargeBoxKeepsRatio ==
    (Normalized /\ BoxWidth(returned.of) > 0 /\ BoxHeight(returned.of) > 0
        /\ (BoxWidth(returned.of) > 1000 \/ BoxHeight(returned.of) > 1000)) =>
        /\ BoxWidth(returned.box) <= BoxWidth(returned.of) * returned.unit
        /\ BoxHeight(returned.box) <= BoxHeight(returned.of) * returned.unit
        /\ BoxWidth(returned.box) > 0
        /\ BoxHeight(returned.box) > 0
        /\ Ratio(BoxWidth(returned.box), BoxHeight(returned.box))
              = Ratio(BoxWidth(returned.of), BoxHeight(returned.of))

(***************************************************************************)
(* Properties of filter_cycles                                             *)
(***************************************************************************)
Filtered == call.fn = "filter_cycles" /\ returned.done

Shape(face) == CHOOSE sh \in FaceTable : sh.points = face

\* the faces of a list that are to be kept under the given limits
Kept(listed, min_area, min_perimeter, max_area) ==
    SelectSeq(listed,
              LAMBDA f : /\ Len(f) >= 3
                         /\ Shape(f).simple
                         /\ min_area <= Shape(f).area
                         /\ Shape(f).area <= max_area
                         /\ Shape(f).perimeter >= min_perimeter)

\* C16: filter_cycles returns exactly the input faces that have at least 3
\* points, form a valid polygon and satisfy min_area <= area <= max_area
\* and perimeter >= min_perimeter, all bounds inclusive, unmodified and in
\* input order; detect_rooms applies it with 100, 40 and 900000
C16_FilterKeepsSizedFaces ==
    Filtered =>
        /\ returned.value = Kept(call.cycles, call.min_area,
                                 call.min_perimeter, call.max_area)
        /\ call.cycles # <<>> =>
               returned.in_detect_rooms = Kept(call.cycles, 100, 40, 900000)

C16_Witness ==
    /\ Filtered
    /\ Len(call.cycles) = 3
    /\ Len(returned.value) = 2
    /\ returned.value[1] = call.cycles[1]
    /\ returned.value[2] = call.cycles[3]
    /\ Shape(call.cycles[1]).area = call.min_area
    /\ Shape(call.cycles[1]).perimeter = call.min_perimeter
    /\ Shape(call.cycles[2]).area > call.max_area

\* the bowtie of test_filter_invalid_polygon: its first and third edge
\* run along y = 0 and y = 100, the other two cross in (50, 50)
Bowtie == <<<<0, 0>>, <<100, 0>>, <<0, 100>>, <<100, 100>>>>

\* what a zero-width buffer can make of an invalid face whose edges cross:
\* one of the two triangles (0,0), (100,0), (50,50) and (0,100), (100,100),
\* (50,50) of the bowtie, each of area 2500 and perimeter 100 + 2 * 70.7,
\* or both
RepairTable ==
    {[points |-> Bowtie,
      repaired |-> {[area |-> 2500, perimeter |-> 241],
                    [area |-> 5000, perimeter |-> 482]}]}

IsRepairable(face) == \E row \in RepairTable : row.points = face

RepairsOf(face) == (CHOOSE row \in RepairTable : row.points = face).repaired

\* C26: filter_cycles attempts a zero-width-buffer repair on every face
\* whose polygon is invalid and discards the face only if it is still
\* invalid after the repair: an invalid face whose repaired polygon meets
\* the area and perimeter bounds survives
C26_RepairedFaceSurvives ==
    Filtered =>
        \A i \in 1..Len(call.cycles) :
            (/\ IsRepairable(call.cycles[i])
             /\ \A r \in RepairsOf(call.cycles[i]) :
                    /\ call.min_area <= r.area
                    /\ r.area <= call.max_area
                    /\ call.min_perimeter <= r.perimeter)
            => call.cycles[i] \in Range(returned.value)

(***************************************************************************)
(* Properties of calculate_confidence_score                                *)
(***************************************************************************)
Scored == call.fn = "calculate_confidence_score" /\ returned.done

\* the score in hundredths that the rule
\*   0.5 + 0.2 (Strategy A) + compactness bonus + size bonus + corner bonus
\* gives each face, worked out by hand from its area a, perimeter p and
\* c = 4 * pi * a / p^2, without and with Strategy A; 0.3 for the face
\* whose edges cross and 0.2 for the faces of one and two points.  The
\* code takes 3.14159 for pi; no c below lies within 0.000001 of 0.5, 0.3
\* or 0.1, so both give the same bonus
\*   100 x 100:    a 10000,  p 400,  c 0.785: 0.5 + 0.15 + 0.1 + 0.05
\*   10 x 10:      a 100,    p 40,   c 0.785: 0.5 + 0.15 - 0.1 + 0.05
\*   22 x 4:       a 88,     p 52,   c 0.409: 0.5 + 0.10 - 0.1 + 0.05
\*   200 x 1:      a 200,    p 402,  c 0.016: 0.5 + 0    - 0.1 + 0.05
\*   900 x 1000:   a 900000, p 3800, c 0.783: 0.5 + 0.15 - 0.05 + 0.05
\*   100 x 20:     a 2000,   p 240,  c 0.436: 0.5 + 0.10 + 0.1 + 0.05
\*   100 x 10:     a 1000,   p 220,  c 0.260: 0.5 + 0.05 + 0.1 + 0.05
\*   400 x 10:     a 4000,   p 820,  c 0.075: 0.5 + 0    + 0.1 + 0.05
\*   30, 40, 50:   a 600,    p 120,  c 0.524: 0.5 + 0.15 + 0.1 + 0.05
\*   10 corners:   a 10000,  p 400,  c 0.785: 0.5 + 0.15 + 0.1 + 0
\*   22 corners:   a 10000,  p 400,  c 0.785: 0.5 + 0.15 + 0.1 - 0.05
ScoreTable ==
    {[points |-> <<<<0, 0>>, <<100, 0>>, <<100, 100>>, <<0, 100>>>>,
      graph_score |-> 80, polygonize_score |-> 100],
     [points |-> <<<<0, 0>>, <<10, 0>>, <<10, 10>>, <<0, 10>>>>,
      graph_score |-> 60, polygonize_score |-> 80],
     [points |-> <<<<0, 0>>, <<22, 0>>, <<22, 4>>, <<0, 4>>>>,
      graph_score |-> 55, polygonize_score |-> 75],
     [points |-> <<<<0, 0>>, <<200, 0>>, <<200, 1>>, <<0, 1>>>>,
      graph_score |-> 45, polygonize_score |-> 65],
     [points |-> <<<<0, 0>>, <<900, 0>>, <<900, 1000>>, <<0, 1000>>>>,
      graph_score |-> 65, polygonize_score |-> 85],
     [points |-> <<<<0, 0>>, <<100, 0>>, <<100, 20>>, <<0, 20>>>>,
      graph_score |-> 75, polygonize_score |-> 95],
     [points |-> <<<<0, 0>>, <<100, 0>>, <<100, 10>>, <<0, 10>>>>,
      graph_score |-> 70, polygonize_score |-> 90],
     [points |-> <<<<0, 0>>, <<400, 0>>, <<400, 10>>, <<0, 10>>>>,
      graph_score |-> 65, polygonize_score |-> 85],
     [points |-> <<<<0, 0>>, <<40, 0>>, <<0, 30>>>>,
      graph_score |-> 80, polygonize_score |-> 100],
     [points |-> TenCorners, graph_score |-> 75, polygonize_score |-> 95],
     [points |-> ManyCorners, graph_score |-> 70, polygonize_score |-> 90],
     [points |-> <<<<0, 0>>, <<100, 0>>, <<0, 100>>, <<100, 100>>>>,
      graph_score |-> 30, polygonize_score |-> 30],
     [points |-> <<<<0, 0>>, <<100, 0>>>>,
      graph_score |-> 20, polygonize_score |-> 20],
     [points |-> <<<<0, 0>>>>, graph_score |-> 20, polygonize_score |-> 20]}

ScoreOf(face) == CHOOSE row \in ScoreTable : row.points = face

\* C27: for a valid polygon calculate_confidence_score returns
\* clamp(0.5 + 0.2 if Strategy A produced the face + the compactness bonus
\* (0.15, 0.10, 0.05 for c above 0.5, 0.3, 0.1) + the size bonus (0.1 for
\* an area in 500..500000, -0.1 below, -0.05 above) + the corner bonus
\* (0.05 for 3..8 corners, -0.05 for more than 20), 0, 1); for an invalid
\* polygon exactly 0.3 and on an exception exactly 0.2; the value
\* has 2 decimals
C27_ConfidenceAsTabulated ==
    Scored =>
        /\ returned.value = IF call.used_polygonize
                            THEN ScoreOf(call.face).polygonize_score
                            ELSE ScoreOf(call.face).graph_score
        /\ returned.value \in 0..100

C27_Witness ==
    /\ Scored
    /\ Len(call.face) > 20
    /\ call.used_polygonize
    /\ returned.value = 90

(***************************************************************************)
(* Properties of build_wall_graph                                          *)
(***************************************************************************)
Built == call.fn = "build_wall_graph" /\ returned.done

\* C17: after build_wall_graph every edge's two endpoints are nodes, the
\* node set is exactly the set of canonical points that some segment
\* endpoint snaps to, and every edge carries a WallSegment whose snapped
\* start and snapped end are that edge's two endpoints
C17_GraphMatchesSnappedSegments ==
    Built =>
        LET G == returned.value
            snapped == returned.endpoint_map
            segs == call.segments
        IN  /\ \A e \in G.edges : e \subseteq G.nodes
            /\ G.nodes = {snapped[segs[i].start] : i \in 1..Len(segs)} \cup
                         {snapped[segs[i].end] : i \in 1..Len(segs)}
            /\ DOMAIN G.segment = G.edges
            /\ \A e \in G.edges :
                   /\ \E i \in 1..Len(segs) : G.segment[e] = segs[i]
                   /\ e = {snapped[G.segment[e].start],
                           snapped[G.segment[e].end]}

C17_Witness ==
    /\ Built
    /\ call.tolerance = 5
    /\ Cardinality(returned.value.edges) = 3
    /\ Cardinality(returned.value.nodes) = 4
    /\ \E p \in DOMAIN returned.endpoint_map : returned.endpoint_map[p] # p

\* C18: build_wall_graph inserts one edge per input segment, segments that
\* snap to the same node pair staying parallel edges: the number of edges
\* equals the number of segments and every segment is attached to an edge
C18_OneEdgePerSegment ==
    Built =>
        /\ Cardinality(returned.value.edges) = Len(call.segments)
        /\ \A i \in 1..Len(call.segments) :
               \E e \in returned.value.edges :
                   returned.value.segment[e] = call.segments[i]

\* C28: in the graph of build_wall_graph an edge joins a node to itself
\* only if its segment has the same start and end point: a segment with
\* two distinct end points never gives a self-loop, whatever the tolerance
C28_SelfLoopOnlyFromPointSegment ==
    Built =>
        /\ \A e \in returned.value.edges :
               Cardinality(e) = 1 =>
                   returned.value.segment[e].start =
                       returned.value.segment[e].end
        /\ \A i \in 1..Len(call.segments) :
               call.segments[i].start # call.segments[i].end =>
                   returned.endpoint_map[call.segments[i].start] #
                       returned.endpoint_map[call.segments[i].end]

(***************************************************************************)
(* Properties of detect_cycles                                             *)
(***************************************************************************)
CyclesDetected == call.fn = "detect_cycles" /\ returned.done

SquareCorners(lo, hi) == {<<lo, lo>>, <<hi, lo>>, <<hi, hi>>, <<lo, hi>>}

\* the call's walls are the square lo..hi with the square in_lo..in_hi
\* inside it, and the graph keeps the two loops apart
IsNestedSquares(lo, hi, in_lo, in_hi) ==
    /\ lo < in_lo /\ in_lo < in_hi /\ in_hi < hi
    /\ call.segments = Square(lo, hi) \o Square(in_lo, in_hi)
    /\ returned.graph.nodes =
           SquareCorners(lo, hi) \cup SquareCorners(in_lo, in_hi)
    /\ Cardinality(returned.graph.edges) = 8

NestMarks == {0, 5, 50, 95, 100, 150, 200}

\* C19: for a wall graph of two node-disjoint closed loops, one lying inside
\* the other, detect_cycles returns at least 2 cycles, among them a cycle
\* with the corner set of the inner loop
C19_NestedLoopsBothDetected ==
    CyclesDetected =>
        \A lo, hi, in_lo, in_hi \in NestMarks :
            IsNestedSquares(lo, hi, in_lo, in_hi) =>
                /\ Len(returned.value) >= 2
                /\ \E k \in 1..Len(returned.value) :
                       Range(returned.value[k]) = SquareCorners(in_lo, in_hi)

(***************************************************************************)
(* Properties of snap_endpoints                                            *)
(***************************************************************************)
Snapped == call.fn = "snap_endpoints" /\ returned.done

\* the end points of segments i.. not among seen, in list order, start
\* before end
RECURSIVE InputOrderFrom(_, _, _)
InputOrderFrom(segments, i, seen) ==
    IF i > Len(segments) THEN <<>>
    ELSE LET first == IF segments[i].start \in seen THEN <<>>
                      ELSE <<segments[i].start>>
             second == IF segments[i].end \in seen \cup Range(first) THEN <<>>
                       ELSE <<segments[i].end>>
         IN  first \o second \o
             InputOrderFrom(segments, i + 1,
                            seen \cup Range(first) \cup Range(second))

\* the reference procedure: every distinct end point, in input order, goes
\* to the first canonical point made so far within the tolerance, or
\* becomes a canonical point
SnapInInputOrder(segments, tol) ==
    SnapFrom(InputOrderFrom(segments, 1, {}), 1, <<>>, <<>>, tol)

\* C20: snap_endpoints visits the distinct endpoints in input order and maps
\* each to the first canonical point already made within the tolerance, or
\* to itself as a new canonical point: for every segment list and tolerance
\* its result equals the result of the reference procedure
C20_SnapEqualsInputOrderReference ==
    Snapped =>
        returned.value = SnapInInputOrder(call.segments, call.tolerance)

(***************************************************************************)
(* Properties of the steps of detect_rooms                                 *)
(***************************************************************************)
InDetectRooms == call.fn = "detect_rooms"

\* positions of detect_rooms between build_wall_graph and the return of
\* find_faces_in_planar_graph
StrategyBPositions == {"graph", "strategy2", "copied", "removed", "faces"}

\* positions after line 661
AfterStrategyA ==
    {"polygonized", "filtered", "done"} \cup StrategyBPositions

\* the flag is set by Strategy A alone: true exactly when it returned a
\* face, and Strategy B runs only with the flag false
C21_FlagInvariant ==
    (InDetectRooms /\ pc \in AfterStrategyA) =>
        /\ pc = "polygonized" => used_polygonize = (Len(faces) > 0)
        /\ pc \in StrategyBPositions => ~used_polygonize
        /\ pc = "done" =>
             \A i \in 1..Len(rooms) :
                 rooms[i].confidence =
                     calculate_confidence_score(valid_faces[i],
                                                Len(valid_faces),
                                                used_polygonize)

\* the graph is built, and the faces of Strategy A are replaced, only after
\* Strategy A ran and returned no face; the flag never changes afterwards
C21_StepOrder ==
    (InDetectRooms /\ pc # "parsed") =>
        /\ graph' # graph => (pc = "polygonized" /\ Len(faces) = 0)
        /\ faces' # faces => (pc \in StrategyBPositions /\ ~used_polygonize)
        /\ used_polygonize' = used_polygonize

\* C21: detect_rooms runs Strategy A first and builds the wall graph and
\* runs Strategy B only when Strategy A returned no face; the flag given to
\* the confidence scorer is true exactly when Strategy A returned a face
\* and is the same for every room of the call
C21_StrategyAFirst == [][C21_StepOrder]_vars /\ []C21_FlagInvariant

C21_Witness ==
    /\ InDetectRooms
    /\ pc = "done"
    /\ ~used_polygonize
    /\ Len(rooms) = 2
    /\ Cardinality(graph.edges) = 7

\* C22: when Strategy A yields no face and the graph traversal of Strategy B
\* yields none either, the face list that detect_rooms filters is the cycle
\* basis of the wall graph kept to the cycles of at least 3 nodes; from
\* Strategy A on, detect_rooms raises nothing.  (detect_rooms does not
\* compute the cycle basis on this path: the traversal returns no face
\* only for a graph whose cycle basis has no cycle of 3 nodes.)
C22_EmptyTraversalIsCycleBasis ==
    InDetectRooms =>
        /\ (pc \in {"faces", "filtered", "done"} /\ ~used_polygonize
              /\ faces = <<>>) =>
               /\ faces = CycleBasis3(graph)
               /\ pc # "faces" =>
                    valid_faces = filter_cycles(CycleBasis3(graph), MinArea,
                                                MinPerimeter, MaxArea)
        /\ pc = "raised" => ParseRaises(walls)

C22_Witness ==
    /\ InDetectRooms
    /\ pc = "done"
    /\ ~used_polygonize
    /\ faces = <<>>
    /\ Cardinality(graph.nodes) >= 4
    /\ Cardinality(graph.edges) >= 3
    /\ rooms = <<>>

(***************************************************************************)
(* Properties of the steps of find_faces_in_planar_graph                   *)
(***************************************************************************)
NoRepeatedNodeSet(listed) ==
    \A i, j \in 1..Len(listed) :
        Range(listed[i]) = Range(listed[j]) => i = j

\* the cycles kept so far stay where they are
KeepsFirstDiscovered ==
    (pc \in {"strategy2", "copied", "removed"} /\ pc' # "faces") =>
        /\ Len(locals'.all_cycles) >= Len(locals.all_cycles)
        /\ \A k \in 1..Len(locals.all_cycles) :
               locals'.all_cycles[k] = locals.all_cycles[k]

\* C23: the cycles that find_faces_in_planar_graph and detect_cycles return
\* never hold two cycles over the same node set: of the cycles found over
\* one node set the first one discovered is kept, whatever its order
C23_OneCyclePerNodeSet ==
    /\ [](/\ NoRepeatedNodeSet(locals.all_cycles)
          /\ pc \in {"faces", "cycles"} => NoRepeatedNodeSet(faces)
          /\ NoRepeatedNodeSet(cycles))
    /\ [][KeepsFirstDiscovered]_vars

C23_Witness ==
    /\ call.fn = "detect_cycles"
    /\ pc = "cycles"
    /\ Cardinality(graph.nodes) = 4
    /\ Cardinality(graph.edges) = 6
    /\ Len(cycles) > 0
    /\ Cardinality(SimpleCycles(graph)) > 2 * Len(cycles)

\* the bounds (min_x, min_y, max_x, max_y) of the points of a cycle
BoxOf(cycle) ==
    <<SetMin({cycle[i][1] : i \in 1..Len(cycle)}),
      SetMin({cycle[i][2] : i \in 1..Len(cycle)}),
      SetMax({cycle[i][1] : i \in 1..Len(cycle)}),
      SetMax({cycle[i][2] : i \in 1..Len(cycle)})>>

\* every edge of the cycle runs along one side of the cycle's bounds: the
\* cycle goes around an axis-parallel rectangle
IsBoxCycle(cycle) ==
    LET b == BoxOf(cycle)
    IN  /\ b[1] < b[3] /\ b[2] < b[4]
        /\ \A i \in 1..Len(cycle) :
             LET p == cycle[i]
                 q == cycle[(i % Len(cycle)) + 1]
             IN  \/ p[1] = q[1] /\ p[1] \in {b[1], b[3]}
                 \/ p[2] = q[2] /\ p[2] \in {b[2], b[4]}

BoxArea(b) == (b[3] - b[1]) * (b[4] - b[2])

BoxInside(inner, outer) ==
    /\ outer[1] <= inner[1] /\ inner[3] <= outer[3]
    /\ outer[2] <= inner[2] /\ inner[4] <= outer[4]

\* another candidate with less than 80% of the area of c lies in c
HasSmallerInside(c, candidates) ==
    \E k \in 1..Len(candidates) :
        /\ candidates[k] # c
        /\ 10 * BoxArea(BoxOf(candidates[k])) < 8 * BoxArea(BoxOf(c))
        /\ BoxInside(BoxOf(candidates[k]), BoxOf(c))

\* u goes around the two rooms c and d taken together
IsUnionOf(u, c, d) ==
    /\ c # d /\ u # c /\ u # d
    /\ BoxInside(BoxOf(c), BoxOf(u))
    /\ BoxInside(BoxOf(d), BoxOf(u))
    /\ BoxArea(BoxOf(u)) = BoxArea(BoxOf(c)) + BoxArea(BoxOf(d))

MinimalFacesAsClaimed ==
    KeepMinimalFaces =>
        LET candidates == locals.all_cycles
        IN  /\ Len(candidates) = 1 => faces' = candidates
            /\ (\A k \in 1..Len(candidates) : IsBoxCycle(candidates[k])) =>
                 /\ faces' = SelectSeq(candidates,
                                LAMBDA c : ~HasSmallerInside(c, candidates))
                 /\ \A u, c, d \in Range(candidates) :
                        (IsUnionOf(u, c, d) /\ c \in Range(faces')
                            /\ d \in Range(faces')) => u \notin Range(faces')

C25_FacesOfThreeToTwentyNodes ==
    pc \in {"faces", "cycles"} =>
        \A k \in 1..Len(faces) : 3 <= Len(faces[k]) /\ Len(faces[k]) <= 20

\* the square of the distance between two points
Apart2(p, q) ==
    (p[1] - q[1]) * (p[1] - q[1]) + (p[2] - q[2]) * (p[2] - q[2])

CanonicalPoints == {returned.value[p] : p \in DOMAIN returned.value}

\* C29: in the map of snap_endpoints, whatever the order in which the end
\* points are processed: every segment end point is a key; every value is
\* a key that maps to itself; every end point lies within the tolerance of
\* its canonical point; two distinct canonical points are more than the
\* tolerance apart; with tolerance 0 the map is the identity
C29_SnapMapInvariants ==
    Snapped =>
        LET snapped == returned.value
            tol2 == call.tolerance * call.tolerance
        IN  /\ \A i \in 1..Len(call.segments) :
                   /\ call.segments[i].start \in DOMAIN snapped
                   /\ call.segments[i].end \in DOMAIN snapped
            /\ \A p \in DOMAIN snapped :
                   /\ snapped[p] \in DOMAIN snapped
                   /\ snapped[snapped[p]] = snapped[p]
                   /\ Apart2(p, snapped[p]) <= tol2
            /\ \A c, d \in CanonicalPoints : c # d => Apart2(c, d) > tol2
            /\ call.tolerance = 0 => \A p \in DOMAIN snapped : snapped[p] = p

\* three end points in a row, each within the tolerance of the next: the
\* middle one is merged into an outer one
C29_Witness ==
    /\ Snapped
    /\ call.tolerance = 5
    /\ {<<0, 0>>, <<4, 0>>, <<8, 0>>} \subseteq DOMAIN returned.value
    /\ returned.value[<<4, 0>>] = <<0, 0>>
    /\ returned.value[<<8, 0>>] = <<8, 0>>

\* the positions of find_faces_in_planar_graph and of the rest of
\* detect_cycles, from the call to the return
FaceFindingPositions == {"graph", "strategy2", "copied", "removed", "faces"}

\* a step taken inside the two functions keeps the graph as it was
GraphKept ==
    pc \in FaceFindingPositions =>
        /\ graph'.nodes = graph.nodes
        /\ graph'.edges = graph.edges
        /\ graph'.segment = graph.segment


\* C30: find_faces_in_planar_graph and detect_cycles leave the graph
\* passed to them unchanged: no step of theirs, on the normal path or on
\* the path of the exception, changes the nodes, the edges or the segment
\* of an edge of the graph; the edge removals are made on graph_temp
C30_GraphUnchanged == [][GraphKept]_vars

\* detect_cycles has returned the cycles it found after removing edges of
\* the copies, and the graph is the one built from the walls
C30_Witness ==
    /\ call.fn = "detect_cycles"
    /\ pc = "cycles"
    /\ Len(cycles) > 1
    /\ Cardinality(graph.edges) = Len(walls)
    /\ Cardinality(graph.nodes) >= 3

====
